---- MODULE Spec2Model ----
(***************************************************************************)
(* Model of the multi-version API layer of openeo_driver (views.py):       *)
(* version resolution, the endpoint registry with its capability listing,  *)
(* the capabilities document, collection-metadata normalization and the    *)
(* rendering of batch jobs and services.                                   *)
(***************************************************************************)
EXTENDS Integers, Sequences, FiniteSets, TLC

VARIABLES
    pc,            \* per request: position in flask's request handling
    request,       \* per request: the matched view and the version segment of its path
    g,             \* per request: flask.g, the request-local context
    response,      \* per request: the response produced (None while in flight)
    bp_rules,      \* EndpointRegistry scenario: url rules of the blueprint, in registration order
    _endpoints,    \* EndpointRegistry._endpoints: view function name -> EndpointMetadata
    reg_phase,     \* EndpointRegistry scenario: "startup" or "serving"
    reg_metadata,  \* EndpointRegistry scenario: result of get_path_metadata
    reg_listing,   \* EndpointRegistry scenario: the last capability listing and its version
    catalog,       \* the collection records of the backend catalog, as get_all_metadata lists them
    col_request,   \* the last collections request: view, version segment, collection id
    col_response,  \* the response to the last collections request
    col_log,       \* the log records written while that request was handled
    norm_call,     \* the last direct call of _normalize_collection_metadata and its outcome
    _job_registry, \* DummyBatchJobs._job_registry: (user id, job id) -> BatchJobMetadata, in insertion order
    _registry,     \* DummySecondaryServices._registry: the list of ServiceMetadata
    ent_request,   \* the last jobs or services request: view, version segment, user, entity id
    ent_response,  \* the response to that request
    backend_implementation,  \* OpenEoBackendImplementation: the class of each microservice
    job_call,      \* the last direct call of a DummyBatchJobs method and its outcome
    spec,          \* a ProcessSpec under construction
    spec_dicts,    \* the outcomes of to_dict_040 and to_dict_100 on that ProcessSpec
    _processes,    \* ProcessRegistry._processes: name -> function and spec
    proc_call      \* the last lookup in the ProcessRegistry and its outcome

app_vars == <<pc, request, g, response>>
reg_vars == <<bp_rules, _endpoints, reg_phase, reg_metadata, reg_listing>>
col_vars == <<catalog, col_request, col_response, col_log>>
ent_vars == <<_job_registry, _registry, ent_request, ent_response, backend_implementation, job_call>>
proc_vars == <<spec, spec_dicts, _processes, proc_call>>
vars == <<pc, request, g, response, bp_rules, _endpoints, reg_phase, reg_metadata, reg_listing,
          catalog, col_request, col_response, col_log, norm_call,
          _job_registry, _registry, ent_request, ent_response, backend_implementation,
          job_call, spec, spec_dicts, _processes, proc_call>>

None == "None"

(***************************************************************************)
(* Bounds of the model.                                                    *)
(***************************************************************************)
NumRequests == 2
MaxRules == 2
MaxCatalog == 2
MaxJobs == 2
MaxServices == 2
MaxParams == 2

Requests == 1..NumRequests

(***************************************************************************)
(* API_VERSIONS: the version catalog, a dict in insertion order.           *)
(***************************************************************************)
ApiVersionInfo(k, v, s, a, p) ==
    [key |-> k, version |-> v, supported |-> s, advertised |-> a, production |-> p]

\* the catalog with an entry that is offered to clients but not served
API_VERSIONS_advertises_unsupported ==
    << ApiVersionInfo("0.3",   "0.3.1", FALSE, TRUE,  FALSE),
       ApiVersionInfo("0.4.0", "0.4.0", TRUE,  TRUE,  TRUE),
       ApiVersionInfo("1.0.0", "1.0.0", TRUE,  TRUE,  FALSE) >>

\* the catalog with an alias whose canonical version has no entry of its own
API_VERSIONS_dangling_alias ==
    << ApiVersionInfo("0.4.0", "0.4.0", TRUE,  TRUE,  TRUE),
       ApiVersionInfo("0.4",   "0.4.2", TRUE,  TRUE,  TRUE),
       ApiVersionInfo("1.0.0", "1.0.0", TRUE,  TRUE,  FALSE) >>

API_VERSIONS ==
    << ApiVersionInfo("0.3.0", "0.3.0", FALSE, FALSE, FALSE),
       ApiVersionInfo("0.3.1", "0.3.1", FALSE, FALSE, FALSE),
       ApiVersionInfo("0.3",   "0.3.1", FALSE, FALSE, FALSE),
       ApiVersionInfo("0.4.0", "0.4.0", TRUE,  TRUE,  TRUE),
       ApiVersionInfo("0.4.1", "0.4.1", TRUE,  TRUE,  TRUE),
       ApiVersionInfo("0.4.2", "0.4.2", TRUE,  TRUE,  TRUE),
       ApiVersionInfo("0.4",   "0.4.2", TRUE,  TRUE,  TRUE),
       ApiVersionInfo("1.0.0", "1.0.0", TRUE,  TRUE,  FALSE),
       ApiVersionInfo("1.0",   "1.0.0", TRUE,  TRUE,  FALSE) >>

DEFAULT_VERSION == "0.4.2"

\* k in API_VERSIONS
InApiVersions(k) == \E i \in 1..Len(API_VERSIONS) : API_VERSIONS[i].key = k

\* API_VERSIONS[k]
ApiVersionsGet(k) ==
    API_VERSIONS[CHOOSE i \in 1..Len(API_VERSIONS) : API_VERSIONS[i].key = k]

\* [k for k, v in API_VERSIONS.items() if v.advertised]
RECURSIVE AdvertisedKeysUpTo(_)
AdvertisedKeysUpTo(n) ==
    IF n = 0 THEN <<>>
    ELSE IF API_VERSIONS[n].advertised
         THEN Append(AdvertisedKeysUpTo(n - 1), API_VERSIONS[n].key)
         ELSE AdvertisedKeysUpTo(n - 1)

\* every key of the catalog, advertised or not
AllCatalogKeys == [i \in 1..Len(API_VERSIONS) |-> API_VERSIONS[i].key]

AdvertisedKeys == AdvertisedKeysUpTo(Len(API_VERSIONS))

(***************************************************************************)
(* ComparableVersion (openeo.capabilities): versions are parsed into their *)
(* numeric components and compared as python lists.                        *)
(***************************************************************************)
VersionComponents ==
    [ v \in {"0.0.0", "0.3.0", "0.3.1", "0.3", "0.4.0", "0.4.1", "0.4.2", "0.4",
             "1.0.0", "1.0", "1.1.0"} |->
        CASE v = "0.0.0" -> <<0, 0, 0>>
          [] v = "0.3.0" -> <<0, 3, 0>>
          [] v = "0.3.1" -> <<0, 3, 1>>
          [] v = "0.3"   -> <<0, 3>>
          [] v = "0.4.0" -> <<0, 4, 0>>
          [] v = "0.4.1" -> <<0, 4, 1>>
          [] v = "0.4.2" -> <<0, 4, 2>>
          [] v = "0.4"   -> <<0, 4>>
          [] v = "1.0.0" -> <<1, 0, 0>>
          [] v = "1.0"   -> <<1, 0>>
          [] v = "1.1.0" -> <<1, 1, 0>> ]

RECURSIVE ListLess(_, _)
ListLess(a, b) ==
    IF a = <<>> THEN b # <<>>
    ELSE IF b = <<>> THEN FALSE
    ELSE IF Head(a) # Head(b) THEN Head(a) < Head(b)
    ELSE ListLess(Tail(a), Tail(b))

below(self, other) == ListLess(VersionComponents[self], VersionComponents[other])
at_least(self, other) == ~ListLess(VersionComponents[self], VersionComponents[other])
at_most(self, other) == ~ListLess(VersionComponents[other], VersionComponents[self])
or_higher(self, other) == at_least(other, self)
or_lower(self, other) == at_most(other, self)
\* accept_lower that also accepts the version itself
accept_lower_or_equal(self, other) == at_most(other, self)
accept_lower(self, other) == below(other, self)

\* A version predicate handed to the registry: a bound method of a ComparableVersion.
VersionPredicate(op, v) == [op |-> op, v |-> v]

CallPredicate(for_version, api_version) ==
    CASE for_version.op = "or_lower"     -> or_lower(for_version.v, api_version)
      [] for_version.op = "or_higher"    -> or_higher(for_version.v, api_version)
      [] for_version.op = "accept_lower" -> accept_lower(for_version.v, api_version)

(***************************************************************************)
(* Flask url rules.  A path is a sequence of segments: a literal segment   *)
(* or a "<name>" placeholder; the capability listing renders placeholders  *)
(* as "{name}".                                                            *)
(***************************************************************************)
Lit(s) == <<"lit", s>>
Arg(s) == <<"<>", s>>

\* p.replace('<', '{').replace('>', '}')
RenderPath(p) ==
    [i \in 1..Len(p) |-> IF p[i][1] = "<>" THEN <<"{}", p[i][2]>> ELSE p[i]]

\* flask adds HEAD to a rule that takes GET, and OPTIONS to every rule
RuleMethods(methods) ==
    methods \cup (IF "GET" \in methods THEN {"HEAD"} ELSE {}) \cup {"OPTIONS"}

\* Blueprint.route(rule, methods=...) on view function `name` of blueprint `bp`
Rule(bp, name, path, methods) ==
    [rule |-> path, methods |-> RuleMethods(methods), endpoint |-> <<bp, name>>]

\* The rule every flask application has of its own: /static/<path:filename>
StaticRule ==
    [rule |-> <<Lit("static"), Arg("path:filename")>>,
     methods |-> RuleMethods({"GET"}), endpoint |-> <<"", "static">>]

(***************************************************************************)
(* EndpointRegistry                                                        *)
(***************************************************************************)
NoPredicate == VersionPredicate("None", "")

EndpointMetadata(hidden, for_version) == [hidden |-> hidden, for_version |-> for_version]

EmptyDict == [x \in {} |-> None]

\* self._endpoints[view_func.__name__] = EndpointMetadata(hidden, for_version)
SetEndpoint(endpoints, name, info) ==
    [n \in DOMAIN endpoints \cup {name} |-> IF n = name THEN info ELSE endpoints[n]]

\* a join that drops a rule whose path an earlier registered rule already has
RECURSIVE PathMetadataUpTo_one_per_path(_, _, _, _)
PathMetadataUpTo_one_per_path(endpoints, bp, rules, n) ==
    IF n = 0 THEN <<>>
    ELSE LET rule == rules[n]
             name == rule.endpoint[2]
             rest == PathMetadataUpTo_one_per_path(endpoints, bp, rules, n - 1)
         IN  IF /\ rule.endpoint[1] = bp /\ name \in DOMAIN endpoints
                /\ \A k \in 1..Len(rest) : rest[k].path # rule.rule
             THEN Append(rest, [path |-> rule.rule,
                                methods |-> rule.methods \ {"HEAD", "OPTIONS"},
                                info |-> endpoints[name]])
             ELSE rest

\* EndpointRegistry.get_path_metadata: the rules of a fresh app that holds only
\* the blueprint, joined with the registry on the view function's name.
RECURSIVE PathMetadataUpTo(_, _, _, _)
PathMetadataUpTo(endpoints, bp, rules, n) ==
    IF n = 0 THEN <<>>
    ELSE LET rule == rules[n]
             name == rule.endpoint[2]
             rest == PathMetadataUpTo(endpoints, bp, rules, n - 1)
         IN  IF rule.endpoint[1] = bp /\ name \in DOMAIN endpoints
             THEN Append(rest, [path |-> rule.rule,
                                methods |-> rule.methods \ {"HEAD", "OPTIONS"},
                                info |-> endpoints[name]])
             ELSE rest

get_path_metadata(endpoints, bp, blueprint_rules) ==
    LET rules == <<StaticRule>> \o blueprint_rules
    IN  PathMetadataUpTo(endpoints, bp, rules, Len(rules))

\* the condition without the hidden flag
Listed_ignores_hidden(info, api_version) ==
    info.for_version = NoPredicate \/ CallPredicate(info.for_version, api_version)

\* the condition of get_capabilities_endpoints' loop
Listed(info, api_version) ==
    ~info.hidden /\ (info.for_version = NoPredicate \/ CallPredicate(info.for_version, api_version))

\* a new entry per registration instead of an update of the path's entry
UpdateMethods_no_merge(endpoint_methods, path, methods) ==
    Append(endpoint_methods, [path |-> path, methods |-> methods])

\* endpoint_methods[path].update(methods) on a defaultdict(set), kept in insertion order
UpdateMethods(endpoint_methods, path, methods) ==
    IF \E i \in 1..Len(endpoint_methods) : endpoint_methods[i].path = path
    THEN [i \in 1..Len(endpoint_methods) |->
            IF endpoint_methods[i].path = path
            THEN [path |-> path, methods |-> endpoint_methods[i].methods \cup methods]
            ELSE endpoint_methods[i]]
    ELSE Append(endpoint_methods, [path |-> path, methods |-> methods])

RECURSIVE EndpointMethodsUpTo(_, _, _)
EndpointMethodsUpTo(metadata, api_version, n) ==
    IF n = 0 THEN <<>>
    ELSE LET rest == EndpointMethodsUpTo(metadata, api_version, n - 1)
         IN  IF Listed(metadata[n].info, api_version)
             THEN UpdateMethods(rest, metadata[n].path, metadata[n].methods)
             ELSE rest

\* EndpointRegistry.get_capabilities_endpoints; "methods" is list(ms) of a set:
\* every method once, in no particular order.
get_capabilities_endpoints(metadata, api_version) ==
    LET endpoint_methods == EndpointMethodsUpTo(metadata, api_version, Len(metadata))
    IN  [i \in 1..Len(endpoint_methods) |->
            [path |-> RenderPath(endpoint_methods[i].path),
             methods |-> endpoint_methods[i].methods]]

(***************************************************************************)
(* The application: the routes of blueprint openeo_bp in definition order, *)
(* and the registrations made by the api_endpoint decorator.               *)
(***************************************************************************)
openeo_bp_rules ==
    << Rule("openeo", "index", <<>>, {"GET"}),
       Rule("openeo", "health", <<Lit("health")>>, {"GET"}),
       Rule("openeo", "capabilities", <<Lit("capabilities")>>, {"GET"}),
       Rule("openeo", "output_formats", <<Lit("output_formats")>>, {"GET"}),
       Rule("openeo", "file_formats", <<Lit("file_formats")>>, {"GET"}),
       Rule("openeo", "udf_runtimes", <<Lit("udf_runtimes")>>, {"GET"}),
       Rule("openeo", "credentials_basic", <<Lit("credentials"), Lit("basic")>>, {"GET"}),
       Rule("openeo", "credentials_oidc", <<Lit("credentials"), Lit("oidc")>>, {"GET"}),
       Rule("openeo", "me", <<Lit("me")>>, {"GET"}),
       Rule("openeo", "timeseries", <<Lit("timeseries")>>, {"GET"}),
       Rule("openeo", "point", <<Lit("timeseries"), Lit("point")>>, {"POST"}),
       Rule("openeo", "download", <<Lit("download")>>, {"GET", "POST"}),
       Rule("openeo", "result", <<Lit("result")>>, {"POST"}),
       Rule("openeo", "preview", <<Lit("preview")>>, {"GET", "POST"}),
       Rule("openeo", "execute", <<Lit("execute")>>, {"POST"}),
       Rule("openeo", "create_job", <<Lit("jobs")>>, {"POST"}),
       Rule("openeo", "list_jobs", <<Lit("jobs")>>, {"GET"}),
       Rule("openeo", "get_job_info", <<Lit("jobs"), Arg("job_id")>>, {"GET"}),
       Rule("openeo", "delete_job", <<Lit("jobs"), Arg("job_id")>>, {"DELETE"}),
       Rule("openeo", "modify_job", <<Lit("jobs"), Arg("job_id")>>, {"PATCH"}),
       Rule("openeo", "queue_job", <<Lit("jobs"), Arg("job_id"), Lit("results")>>, {"POST"}),
       Rule("openeo", "list_job_results", <<Lit("jobs"), Arg("job_id"), Lit("results")>>, {"GET"}),
       Rule("openeo", "download_job_result",
            <<Lit("jobs"), Arg("job_id"), Lit("results"), Arg("filename")>>, {"GET"}),
       Rule("openeo", "get_job_logs", <<Lit("jobs"), Arg("job_id"), Lit("logs")>>, {"GET"}),
       Rule("openeo", "cancel_job", <<Lit("jobs"), Arg("job_id"), Lit("results")>>, {"DELETE"}),
       Rule("openeo", "service_types", <<Lit("service_types")>>, {"GET"}),
       Rule("openeo", "services_post", <<Lit("services")>>, {"POST"}),
       Rule("openeo", "services_get", <<Lit("services")>>, {"GET"}),
       Rule("openeo", "get_service_info", <<Lit("services"), Arg("service_id")>>, {"GET"}),
       Rule("openeo", "service_patch", <<Lit("services"), Arg("service_id")>>, {"PATCH"}),
       Rule("openeo", "service_delete", <<Lit("services"), Arg("service_id")>>, {"DELETE"}),
       Rule("openeo", "subscription", <<Lit("subscription")>>, {"GET"}),
       Rule("openeo", "collections", <<Lit("collections")>>, {"GET"}),
       Rule("openeo", "collection_by_id", <<Lit("collections"), Arg("collection_id")>>, {"GET"}),
       Rule("openeo", "processes", <<Lit("processes")>>, {"GET"}),
       Rule("openeo", "process", <<Lit("processes"), Arg("process_id")>>, {"GET"}) >>

\* the view functions decorated with a version predicate
VersionedEndpoints ==
    [ capabilities   |-> VersionPredicate("or_lower", "0.3.1"),
      output_formats |-> VersionPredicate("accept_lower", "1.0.0"),
      file_formats   |-> VersionPredicate("or_higher", "1.0.0"),
      preview        |-> VersionPredicate("or_lower", "0.3.1") ]

\* the view functions decorated with @api_endpoint and no arguments
PlainEndpoints ==
    { "udf_runtimes", "credentials_basic", "credentials_oidc", "me", "result",
      "create_job", "list_jobs", "get_job_info", "delete_job", "modify_job",
      "queue_job", "list_job_results", "download_job_result", "get_job_logs",
      "cancel_job", "service_types", "services_post", "services_get",
      "get_service_info", "service_patch", "service_delete", "subscription",
      "collections", "collection_by_id", "processes", "process" }

\* api_endpoint._endpoints once views.py is imported
api_endpoint ==
    [ name \in PlainEndpoints \cup DOMAIN VersionedEndpoints |->
        IF name \in PlainEndpoints
        THEN EndpointMetadata(FALSE, NoPredicate)
        ELSE EndpointMetadata(FALSE, VersionedEndpoints[name]) ]

\* _openeo_endpoint_metadata = api_endpoint.get_path_metadata(openeo_bp)
_openeo_endpoint_metadata == get_path_metadata(api_endpoint, "openeo", openeo_bp_rules)

(***************************************************************************)
(* Request handling.  A request is matched to a view; for a view of the    *)
(* blueprint the url value preprocessor _pull_version runs first, then the *)
(* view function.  flask.g is local to the request.                        *)
(***************************************************************************)
NoVersionSegment == "<no version segment>"

\* version segments a client may put in the path
Tokens ==
    {"0.3.0", "0.3.1", "0.3", "0.4.0", "0.4.1", "0.4.2", "0.4", "1.0.0", "1.0", "0.0.0", "1.1.0"}

\* the views of the blueprint that are modelled
BlueprintViews == {"index"}

NoRequest == [view |-> None, version |-> NoVersionSegment]
NoResponse == [kind |-> "none", status_code |-> 0]

\* handle_openeoapi_exception applied to an OpenEOApiException
OpenEOApiException(status_code, code, message) ==
    [kind |-> "error", status_code |-> status_code, code |-> code, message |-> message]

\* handle_error applied to any other exception
InternalError(exception) ==
    [kind |-> "error", status_code |-> 500, code |-> "Internal", message |-> exception]

\* values.pop('version', DEFAULT_VERSION)
PopVersion(token) == IF token = NoVersionSegment THEN DEFAULT_VERSION ELSE token

\* the check without the supported flag
IsSupported_ignores_flag(version) == InApiVersions(version)

\* version in API_VERSIONS and API_VERSIONS[version].supported
IsSupported(version) == InApiVersions(version) /\ ApiVersionsGet(version).supported

UnsupportedApiVersion(version) ==
    OpenEOApiException(501, "UnsupportedApiVersion",
                       [unsupported |-> version, available |-> AdvertisedKeys])

\* the body of _pull_version on the version segment of a path: the error it
\* raises, or what it publishes in g
\* a version that is not supported is served as the default version
PullVersion_falls_back_to_default(token) ==
    LET version == IF IsSupported(PopVersion(token)) THEN PopVersion(token) ELSE DEFAULT_VERSION
    IN  [raised |-> FALSE, error |-> NoResponse,
         g |-> [request_version |-> version, api_version |-> ApiVersionsGet(version).version]]

PullVersion(token) ==
    LET version == PopVersion(token)
    IN  IF ~IsSupported(version)
        THEN [raised |-> TRUE, error |-> UnsupportedApiVersion(version), g |-> EmptyDict]
        ELSE [raised |-> FALSE, error |-> NoResponse,
              g |-> [request_version |-> version, api_version |-> ApiVersionsGet(version).version]]

_pull_version(r) ==
    /\ pc[r] = "idle"
    /\ \E view \in BlueprintViews, token \in Tokens \cup {NoVersionSegment} :
         LET pulled == PullVersion(token)
         IN  /\ request' = [request EXCEPT ![r] = [view |-> view, version |-> token]]
             /\ IF pulled.raised
                THEN /\ response' = [response EXCEPT ![r] = pulled.error]
                     /\ pc' = [pc EXCEPT ![r] = "done"]
                     /\ UNCHANGED g
                ELSE /\ g' = [g EXCEPT ![r] = pulled.g]
                     /\ pc' = [pc EXCEPT ![r] = "view"]
                     /\ UNCHANGED response
    /\ UNCHANGED <<reg_vars, col_vars, norm_call, ent_vars, proc_vars>>

\* the production flag of the default version instead of the requested one
ProductionFlag_of_default(api_version) == ApiVersionsGet(DEFAULT_VERSION).production

\* API_VERSIONS[api_version].production
ProductionFlag(api_version) == ApiVersionsGet(api_version).production

\* the capabilities document without the deploy metadata
Capabilities_without_deploy_metadata(api_version) ==
    [ version |-> api_version,
      api_version |-> api_version,
      backend_version |-> "0.0.1",
      stac_version |-> "0.9.0",
      id |-> <<"openeoapi-", api_version>>,
      title |-> "OpenEO API",
      description |-> "OpenEO API",
      production |-> ProductionFlag(api_version),
      endpoints |-> get_capabilities_endpoints(_openeo_endpoint_metadata, api_version),
      billing |-> [currency |-> "EUR", plans |-> <<"free">>] ]

\* the capabilities document of index(), with the default application config
Capabilities(api_version) ==
    [ version |-> api_version,
      api_version |-> api_version,
      backend_version |-> "0.0.1",
      stac_version |-> "0.9.0",
      id |-> <<"openeoapi-", api_version>>,
      title |-> "OpenEO API",
      description |-> "OpenEO API",
      production |-> ProductionFlag(api_version),
      endpoints |-> get_capabilities_endpoints(_openeo_endpoint_metadata, api_version),
      billing |-> [currency |-> "EUR", plans |-> <<"free">>],
      _backend_deploy_metadata |-> [date |-> "utcnow", versions |-> <<"openeo", "openeo_driver">>] ]

\* one context for all requests: what another request published, if one did
flask_g_of_any_request(r) ==
    IF \E q \in Requests \ {r} : g[q] # EmptyDict
    THEN g[CHOOSE q \in Requests \ {r} : g[q] # EmptyDict]
    ELSE g[r]

\* flask.g in the handling of request r: the context of that request
flask_g(r) == g[r]

index(r) ==
    /\ pc[r] = "view"
    /\ request[r].view = "index"
    /\ LET api_version == flask_g(r).api_version
       IN  response' = [response EXCEPT ![r] =
               IF InApiVersions(api_version)
               THEN [kind |-> "capabilities", status_code |-> 200, json |-> Capabilities(api_version)]
               ELSE InternalError("KeyError")]
    /\ pc' = [pc EXCEPT ![r] = "done"]
    /\ UNCHANGED <<request, g>>
    /\ UNCHANGED <<reg_vars, col_vars, norm_call, ent_vars, proc_vars>>

\* the "versions" of the discovery document
RECURSIVE WellKnownVersionsUpTo(_)
WellKnownVersionsUpTo(n) ==
    IF n = 0 THEN <<>>
    ELSE IF API_VERSIONS[n].advertised
         THEN Append(WellKnownVersionsUpTo(n - 1),
                     [url |-> <<"openeo", API_VERSIONS[n].key>>,
                      api_version |-> API_VERSIONS[n].version,
                      production |-> API_VERSIONS[n].production])
         ELSE WellKnownVersionsUpTo(n - 1)

\* a route of the application itself: no version segment, no _pull_version
well_known_openeo(r) ==
    /\ pc[r] = "idle"
    /\ request' = [request EXCEPT ![r] = [view |-> "well_known_openeo", version |-> NoVersionSegment]]
    /\ response' = [response EXCEPT ![r] =
           [kind |-> "versions", status_code |-> 200,
            json |-> [versions |-> WellKnownVersionsUpTo(Len(API_VERSIONS))]]]
    /\ pc' = [pc EXCEPT ![r] = "done"]
    /\ UNCHANGED g
    /\ UNCHANGED <<reg_vars, col_vars, norm_call, ent_vars, proc_vars>>

AppInit ==
    /\ pc = [r \in Requests |-> "idle"]
    /\ request = [r \in Requests |-> NoRequest]
    /\ g = [r \in Requests |-> EmptyDict]
    /\ response = [r \in Requests |-> NoResponse]

(***************************************************************************)
(* An EndpointRegistry of its own, filled at startup by decorated view     *)
(* functions of a blueprint "test", then queried.                          *)
(***************************************************************************)
ViewNames == {"foo", "static"}
RulePaths == { <<Lit("foo")>>, <<Lit("foo"), Arg("id")>> }
RouteMethods == { {"GET"}, {"POST"}, {"GET", "POST"} }
Predicates ==
    { NoPredicate, VersionPredicate("accept_lower", "1.0.0"), VersionPredicate("or_higher", "1.0.0") }

\* the canonical versions a capability listing is asked for
ListingVersions == {"0.4.0", "0.4.2", "1.0.0"}

NoListing == [api_version |-> None, endpoints |-> <<>>]

\* @bp.route(path, methods=methods) on view function `name`
route(name, path, methods) ==
    /\ reg_phase = "startup"
    /\ Len(bp_rules) < MaxRules
    /\ bp_rules' = Append(bp_rules, Rule("test", name, path, methods))
    /\ UNCHANGED <<_endpoints, reg_phase, reg_metadata, reg_listing>>
    /\ UNCHANGED <<app_vars, col_vars, norm_call, ent_vars, proc_vars>>

add_endpoint(name, hidden, version) ==
    /\ reg_phase = "startup"
    /\ _endpoints' = SetEndpoint(_endpoints, name, EndpointMetadata(hidden, version))
    /\ UNCHANGED <<bp_rules, reg_phase, reg_metadata, reg_listing>>
    /\ UNCHANGED <<app_vars, col_vars, norm_call, ent_vars, proc_vars>>

\* end of startup: metadata = endpoint.get_path_metadata(bp)
StartServing ==
    /\ reg_phase = "startup"
    /\ reg_metadata' = get_path_metadata(_endpoints, "test", bp_rules)
    /\ reg_phase' = "serving"
    /\ UNCHANGED <<bp_rules, _endpoints, reg_listing>>
    /\ UNCHANGED <<app_vars, col_vars, norm_call, ent_vars, proc_vars>>

\* a capabilities request: EndpointRegistry.get_capabilities_endpoints(metadata, api_version)
ListEndpoints(api_version) ==
    /\ reg_phase = "serving"
    /\ reg_listing' = [api_version |-> api_version,
                       endpoints |-> get_capabilities_endpoints(reg_metadata, api_version)]
    /\ UNCHANGED <<bp_rules, _endpoints, reg_phase, reg_metadata>>
    /\ UNCHANGED <<app_vars, col_vars, norm_call, ent_vars, proc_vars>>

RegInit ==
    /\ bp_rules = <<>>
    /\ _endpoints = EmptyDict
    /\ reg_phase = "startup"
    /\ reg_metadata = <<>>
    /\ reg_listing = NoListing

(***************************************************************************)
(* Collection metadata.  A record is a python dict: a function from keys   *)
(* to values; {} and [] are the empty function.                            *)
(***************************************************************************)
\* k.startswith('_'), on the keys that occur
startswith_underscore(k) == k \in {"_private", "_backend_deploy_metadata"}

\* d[k] = v
DictSet(d, k, v) == [x \in DOMAIN d \cup {k} |-> IF x = k THEN v ELSE d[x]]

\* d.setdefault(k, v)
setdefault(d, k, v) == IF k \in DOMAIN d THEN d ELSE DictSet(d, k, v)

\* the comprehension without its filter
DictRestrict_keeps_all(d, keys) == d

\* {k: v for k, v in d.items() if k in keys}
DictRestrict(d, keys) == [x \in DOMAIN d \cap keys |-> d[x]]

\* deep_get(data, key, default=None) and deep_get(data, key1, key2, default=None)
NotFound == [found |-> FALSE, value |-> None]
deep_get(data, key) ==
    IF key \in DOMAIN data THEN [found |-> TRUE, value |-> data[key]] ELSE NotFound
deep_get2(data, key1, key2) ==
    IF key1 \in DOMAIN data /\ key2 \in DOMAIN data[key1]
    THEN [found |-> TRUE, value |-> data[key1][key2]]
    ELSE NotFound

\* presence instead of truth: an empty container counts as a value
Truthy_if_present(x) == x.found

\* python truth of what deep_get returned: None, {} and [] are false
Truthy(x) == x.found /\ x.value # <<>>

\* metadata.setdefault(outer, {}); metadata[outer][key] = value
SetNested(metadata, outer, key, value) ==
    DictSet(metadata, outer, DictSet(setdefault(metadata, outer, EmptyDict)[outer], key, value))

LogWarning(text, collection, field) ==
    [level |-> "WARNING", text |-> text, collection |-> collection, field |-> field]
\* the entry written at warning level
LogError_as_warning(text, metadata) ==
    [level |-> "WARNING", text |-> text, metadata |-> metadata]
LogError(text, metadata) ==
    [level |-> "ERROR", text |-> text, metadata |-> metadata]

\* both warnings name the same field
StyleWarning_same_field(field) ==
    LogWarning("in API 0.4 style instead of 1.0 style", None, "cube:dimensions")
StyleWarning(field) == LogWarning("in API 0.4 style instead of 1.0 style", None, field)
MissingFieldWarning(collection_id, key) ==
    LogWarning("metadata does not have field", collection_id, key)

\* the version dependent conversions: [metadata, log]
RemapLocations(metadata, api_version, full) ==
    LET cube_dims_100 == deep_get(metadata, "cube:dimensions")
        cube_dims_040 == deep_get2(metadata, "properties", "cube:dimensions")
        eo_bands_100 == deep_get2(metadata, "summaries", "eo:bands")
        eo_bands_040 == deep_get2(metadata, "properties", "eo:bands")
    IN  IF below(api_version, "1.0.0")
        THEN LET m1 == IF full /\ ~Truthy(cube_dims_040) /\ Truthy(cube_dims_100)
                       THEN SetNested(metadata, "properties", "cube:dimensions", cube_dims_100.value)
                       ELSE metadata
                 m2 == IF full /\ ~Truthy(eo_bands_040) /\ Truthy(eo_bands_100)
                       THEN SetNested(m1, "properties", "eo:bands", eo_bands_100.value)
                       ELSE m1
             IN  [metadata |-> m2, log |-> <<>>]
        ELSE LET dims == full /\ ~Truthy(cube_dims_100) /\ Truthy(cube_dims_040)
                 bands == full /\ ~Truthy(eo_bands_100) /\ Truthy(eo_bands_040)
                 m1 == IF dims THEN DictSet(metadata, "cube:dimensions", cube_dims_040.value)
                       ELSE metadata
                 m2 == IF bands THEN SetNested(m1, "summaries", "eo:bands", eo_bands_040.value)
                       ELSE m1
             IN  [metadata |-> m2,
                  log |-> (IF dims THEN <<StyleWarning("cube:dimensions")>> ELSE <<>>)
                          \o (IF bands THEN <<StyleWarning("eo:bands")>> ELSE <<>>)]

\* one stac_version for every generation
RequiredDefaults_one_stac_version(metadata, api_version, collection_id) ==
    LET m1 == setdefault(metadata, "stac_version", "0.9.0")
        m2 == setdefault(m1, "links", <<>>)
        m3 == setdefault(m2, "description", collection_id)
    IN  setdefault(m3, "license", "proprietary")

\* "Make sure some required fields are set."
RequiredDefaults(metadata, api_version, collection_id) ==
    LET m1 == setdefault(metadata, "stac_version",
                         IF at_least(api_version, "1.0.0") THEN "0.9.0" ELSE "0.6.2")
        m2 == setdefault(m1, "links", <<>>)
        m3 == setdefault(m2, "description", collection_id)
    IN  setdefault(m3, "license", "proprietary")

FallbackExtent == [spatial |-> <<0, 0, 0, 0>>, temporal |-> <<None, None>>]

\* the containers of both generations, whatever the version
Fallbacks_all_generations(api_version, full) ==
    <<[key |-> "extent", value |-> FallbackExtent]>> \o
    (IF ~full THEN <<>>
     ELSE <<[key |-> "cube:dimensions", value |-> EmptyDict],
            [key |-> "summaries", value |-> EmptyDict],
            [key |-> "properties", value |-> EmptyDict],
            [key |-> "other_properties", value |-> EmptyDict]>>)

\* the fallbacks dict, in insertion order
Fallbacks(api_version, full) ==
    <<[key |-> "extent", value |-> FallbackExtent]>> \o
    (IF ~full THEN <<>>
     ELSE IF at_least(api_version, "1.0.0")
          THEN <<[key |-> "cube:dimensions", value |-> EmptyDict],
                 [key |-> "summaries", value |-> EmptyDict]>>
          ELSE <<[key |-> "properties", value |-> EmptyDict],
                 [key |-> "other_properties", value |-> EmptyDict]>>)

\* for key, value in fallbacks.items(): warn and set when missing
RECURSIVE ApplyFallbacks(_, _, _, _)
ApplyFallbacks(metadata, collection_id, fallbacks, n) ==
    IF n = 0 THEN [metadata |-> metadata, log |-> <<>>]
    ELSE LET rest == ApplyFallbacks(metadata, collection_id, fallbacks, n - 1)
             key == fallbacks[n].key
         IN  IF key \notin DOMAIN rest.metadata
             THEN [metadata |-> DictSet(rest.metadata, key, fallbacks[n].value),
                   log |-> Append(rest.log, MissingFieldWarning(collection_id, key))]
             ELSE rest

\* the allow-list with the id forgotten
basic_keys_without_id ==
    { "stac_version", "stac_extensions", "title", "description", "keywords", "version",
      "deprecated", "license", "providers", "extent", "links" }

basic_keys ==
    { "stac_version", "stac_extensions", "id", "title", "description", "keywords", "version",
      "deprecated", "license", "providers", "extent", "links" }

\* the filter left out: every field is kept
StripPrivate_keeps_all(metadata) == metadata

\* "Make copy and remove all private fields"
StripPrivate(metadata) ==
    [k \in {x \in DOMAIN metadata : ~startswith_underscore(x)} |-> metadata[k]]

\* _normalize_collection_metadata: what it raises, returns and logs
_normalize_collection_metadata(metadata_in, api_version, full) ==
    LET metadata == StripPrivate(metadata_in)
    IN  IF "id" \notin DOMAIN metadata
        THEN [raised |-> "KeyError", metadata |-> EmptyDict,
              log |-> <<LogError("Collection metadata should have 'id' field", metadata)>>]
        ELSE LET collection_id == metadata["id"]
                 remapped == RemapLocations(metadata, api_version, full)
                 required == RequiredDefaults(remapped.metadata, api_version, collection_id)
                 fallbacks == Fallbacks(api_version, full)
                 filled == ApplyFallbacks(required, collection_id, fallbacks, Len(fallbacks))
             IN  [raised |-> None,
                  metadata |-> IF full THEN filled.metadata
                               ELSE DictRestrict(filled.metadata, basic_keys),
                  log |-> remapped.log \o filled.log]

(***************************************************************************)
(* The collection views on a backend catalog.                              *)
(***************************************************************************)
DimsTop == [x |-> "spatial"]
DimsProps == [t |-> "temporal"]
BandsSummaries == <<"B02">>
BandsProps == <<"B03">>
OwnExtent == [spatial |-> <<2, 49, 6, 51>>, temporal |-> <<"2019-01-01", None>>]

\* records in the 1.0 layout, in the 0.4 layout, and with nothing but a name
Style100 ==
    ("cube:dimensions" :> DimsTop) @@ ("summaries" :> ("eo:bands" :> BandsSummaries))
        @@ [license |-> "free", extent |-> OwnExtent, links |-> <<>>]
Style040 ==
    ("properties" :> (("cube:dimensions" :> DimsProps) @@ ("eo:bands" :> BandsProps)))
Plain == [name |-> "name"]

PrivateField == [_private |-> [password |-> "dragon"]]

CollectionIds == {"A", "B"}

\* what a backend may hold: records with an id (the catalog is built from
\* layer["id"]), with or without a private field
CatalogRecords ==
    LET bodies == {Style100, Style040, Plain}
        withId == {[id |-> i] @@ b : i \in CollectionIds, b \in bodies}
    IN  withId \cup {PrivateField @@ m : m \in withId}

\* the catalogs: at most MaxCatalog records in insertion order, one per id
Catalogs ==
    LET seqs == UNION {[1..n -> CatalogRecords] : n \in 0..MaxCatalog}
    IN  {c \in seqs : \A i, j \in 1..Len(c) : c[i]["id"] = c[j]["id"] => i = j}

\* CollectionCatalog.get_all_metadata
get_all_metadata == catalog

\* CollectionCatalog._get: the record stored under collection_id, if any
CatalogIndexOf(collection_id) ==
    {i \in 1..Len(catalog) : "id" \in DOMAIN catalog[i] /\ catalog[i]["id"] = collection_id}
CatalogHas(collection_id) == CatalogIndexOf(collection_id) # {}
get_collection_metadata(collection_id) ==
    catalog[CHOOSE i \in CatalogIndexOf(collection_id) : TRUE]

\* the nested dicts that the normalization writes into
NestedWritten == {"properties", "summaries"}

\* a copy of the top level only: the nested dicts of the copy are those of the record
deepcopy_top_level_only(metadata) == NestedWritten \cap DOMAIN metadata

\* copy.deepcopy(metadata): the keys under which the copy still holds an object
\* of the record that was copied
deepcopy(metadata) == {}

\* the record that was passed to _normalize_collection_metadata, after the call:
\* what the call wrote into a nested dict that its copy shares with the record
\* is written into the record
InputAfter(metadata_in, api_version, full) ==
    LET metadata == StripPrivate(metadata_in)
        written == IF "id" \notin DOMAIN metadata THEN metadata
                   ELSE RemapLocations(metadata, api_version, full).metadata
    IN  [k \in DOMAIN metadata_in |->
            IF k \in deepcopy(metadata_in) /\ k \in DOMAIN written
            THEN written[k] ELSE metadata_in[k]]

\* the records that raise are left out of the list
RECURSIVE NormalizeAll_skips_failures(_, _, _)
NormalizeAll_skips_failures(records, api_version, n) ==
    IF n = 0 THEN [raised |-> None, metadata |-> <<>>, log |-> <<>>]
    ELSE LET rest == NormalizeAll_skips_failures(records, api_version, n - 1)
             this == _normalize_collection_metadata(records[n], api_version, FALSE)
         IN  [raised |-> None,
              metadata |-> IF this.raised # None THEN rest.metadata
                           ELSE Append(rest.metadata, this.metadata),
              log |-> rest.log \o this.log]

\* the list comprehension of collections(): the records normalized in order, up
\* to and with the first one that raises
RECURSIVE NormalizeAll(_, _, _)
NormalizeAll(records, api_version, n) ==
    IF n = 0 THEN [raised |-> None, metadata |-> <<>>, log |-> <<>>]
    ELSE LET rest == NormalizeAll(records, api_version, n - 1)
             this == _normalize_collection_metadata(records[n], api_version, FALSE)
         IN  IF rest.raised # None THEN rest
             ELSE [raised |-> this.raised,
                   metadata |-> IF this.raised # None THEN <<>> ELSE Append(rest.metadata, this.metadata),
                   log |-> rest.log \o this.log]

\* the records of the catalog after collections() has passed them to the
\* normalization, up to the first one that raised
RECURSIVE ListedAfter(_, _, _)
ListedAfter(records, api_version, n) ==
    IF n = 0 THEN records
    ELSE LET before == ListedAfter(records, api_version, n - 1)
         IN  IF NormalizeAll(records, api_version, n - 1).raised # None THEN before
             ELSE [before EXCEPT ![n] = InputAfter(records[n], api_version, FALSE)]

CollectionNotFound(collection_id) ==
    OpenEOApiException(404, "CollectionNotFound", <<"Collection", collection_id, "does not exist.">>)

\* what the error handlers log
HandlerLog(error) == <<LogError("error response", error.code)>>

NoColRequest == [view |-> None, version |-> NoVersionSegment, collection_id |-> None]

\* GET /collections
collections(token) ==
    /\ col_request = NoColRequest
    /\ col_request' = [view |-> "collections", version |-> token, collection_id |-> None]
    /\ LET pulled == PullVersion(token)
           metadata == NormalizeAll(get_all_metadata, pulled.g.api_version, Len(get_all_metadata))
       IN  IF pulled.raised
           THEN /\ col_response' = pulled.error
                /\ col_log' = HandlerLog(pulled.error)
           ELSE IF metadata.raised # None
           THEN /\ col_response' = InternalError(metadata.raised)
                /\ col_log' = metadata.log \o HandlerLog(InternalError(metadata.raised))
           ELSE /\ col_response' = [kind |-> "collections", status_code |-> 200,
                                    json |-> [collections |-> metadata.metadata, links |-> <<>>]]
                /\ col_log' = metadata.log
    /\ catalog' = IF PullVersion(token).raised THEN catalog
                  ELSE ListedAfter(catalog, PullVersion(token).g.api_version, Len(catalog))
    /\ UNCHANGED <<app_vars, reg_vars, norm_call, ent_vars, proc_vars>>

\* GET /collections/<collection_id>
collection_by_id(token, collection_id) ==
    /\ col_request = NoColRequest
    /\ col_request' = [view |-> "collection_by_id", version |-> token, collection_id |-> collection_id]
    /\ LET pulled == PullVersion(token)
           metadata == _normalize_collection_metadata(get_collection_metadata(collection_id),
                                                      pulled.g.api_version, TRUE)
       IN  IF pulled.raised
           THEN /\ col_response' = pulled.error
                /\ col_log' = HandlerLog(pulled.error)
           ELSE IF ~CatalogHas(collection_id)
           THEN /\ col_response' = CollectionNotFound(collection_id)
                /\ col_log' = HandlerLog(CollectionNotFound(collection_id))
           ELSE IF metadata.raised # None
           THEN /\ col_response' = InternalError(metadata.raised)
                /\ col_log' = metadata.log \o HandlerLog(InternalError(metadata.raised))
           ELSE /\ col_response' = [kind |-> "collection", status_code |-> 200,
                                    json |-> metadata.metadata]
                /\ col_log' = metadata.log
    /\ catalog' = IF PullVersion(token).raised \/ ~CatalogHas(collection_id) THEN catalog
                  ELSE [catalog EXCEPT ![CHOOSE i \in CatalogIndexOf(collection_id) : TRUE] =
                           InputAfter(@, PullVersion(token).g.api_version, TRUE)]
    /\ UNCHANGED <<app_vars, reg_vars, norm_call, ent_vars, proc_vars>>

\* the response is sent: the application is ready for the next request
ResponseSent ==
    /\ col_request # NoColRequest
    /\ col_request' = NoColRequest
    /\ col_response' = NoResponse
    /\ col_log' = <<>>
    /\ UNCHANGED catalog
    /\ UNCHANGED <<app_vars, reg_vars, norm_call, ent_vars, proc_vars>>

\* records with fields of both layouts: the dimensions where 1.0 has them next
\* to the bands where 0.4 has them, and the other way round
MixedDims100 == ("cube:dimensions" :> DimsTop) @@ ("properties" :> ("eo:bands" :> BandsProps))
MixedBands100 ==
    ("summaries" :> ("eo:bands" :> BandsSummaries)) @@ ("properties" :> ("cube:dimensions" :> DimsProps))
MixedBands040 == ("summaries" :> [other |-> "x"]) @@ Style040

\* the catalogs whose records are handed out by reference: records of one
\* layout, of both, and without id
HandedOutRecords ==
    CatalogRecords
    \cup {[id |-> i] @@ b : i \in CollectionIds, b \in {MixedDims100, MixedBands100, MixedBands040}}
    \cup {Plain}
HandedOutCatalogs ==
    LET seqs == UNION {[1..n -> HandedOutRecords] : n \in 0..MaxCatalog}
    IN  {c \in seqs : \A i, j \in 1..Len(c) :
            ("id" \in DOMAIN c[i] /\ "id" \in DOMAIN c[j] /\ c[i]["id"] = c[j]["id"]) => i = j}

\* the ids a client may ask for
RequestedIds == CollectionIds \cup {"FOOBOO"}

ColIdle ==
    /\ col_request = NoColRequest
    /\ col_response = NoResponse
    /\ col_log = <<>>

(***************************************************************************)
(* _normalize_collection_metadata called by itself, on any record.         *)
(***************************************************************************)
\* the compound fields of a record, each at either location, absent, empty or filled
CompoundParts ==
    LET top == {EmptyDict} \cup {("cube:dimensions" :> d) : d \in {EmptyDict, DimsTop}}
        propsDims == {EmptyDict} \cup {("cube:dimensions" :> d) : d \in {EmptyDict, DimsProps}}
        propsBands == {EmptyDict} \cup {("eo:bands" :> b) : b \in {<<>>, BandsProps}}
        props == {EmptyDict} \cup {("properties" :> (d @@ b)) : d \in propsDims, b \in propsBands}
        sums == {EmptyDict} \cup {("summaries" :> EmptyDict)}
                    \cup {("summaries" :> ("eo:bands" :> b)) : b \in {<<>>, BandsSummaries}}
    IN  {t @@ p @@ u : t \in top, p \in props, u \in sums}

\* the plain fields of a record, each with a value of its own
PlainFields ==
    [ stac_version |-> "0.8.1", links |-> <<"link">>, description |-> "text", license |-> "free",
      extent |-> OwnExtent, title |-> "title", name |-> "name",
      other_properties |-> [a |-> "b"], _private |-> [password |-> "dragon"] ]

PlainParts == {DictRestrict(PlainFields, keys) : keys \in SUBSET DOMAIN PlainFields}

\* the records: any compound part with no or all plain fields, any plain part
\* without compound fields; each with and without an id
Records ==
    LET bodies == {c @@ p : c \in CompoundParts, p \in {EmptyDict, PlainFields}} \cup PlainParts
    IN  bodies \cup {[id |-> "A"] @@ b : b \in bodies}

\* the versions a request can resolve to
CanonicalVersions == {"0.4.0", "0.4.1", "0.4.2", "1.0.0"}

NoCall == [called |-> FALSE]

normalize(metadata, api_version, full) ==
    /\ norm_call = NoCall
    /\ norm_call' = [called |-> TRUE, metadata |-> metadata, api_version |-> api_version,
                     full |-> full,
                     result |-> _normalize_collection_metadata(metadata, api_version, full)]
    /\ UNCHANGED <<app_vars, reg_vars, col_vars, ent_vars, proc_vars>>

\* the function applied once more, to what it returned
normalize_again ==
    /\ norm_call # NoCall
    /\ norm_call.result.raised = None
    /\ "again" \notin DOMAIN norm_call
    /\ norm_call' = norm_call @@
            [again |-> _normalize_collection_metadata(norm_call.result.metadata,
                                                      norm_call.api_version, norm_call.full)]
    /\ UNCHANGED <<app_vars, reg_vars, col_vars, ent_vars, proc_vars>>

(***************************************************************************)
(* Batch job and service metadata on the wire.                             *)
(***************************************************************************)
\* a python value that may be None
PyNone == [is_none |-> TRUE]
Py(v) == [is_none |-> FALSE, value |-> v]

\* a python dict that may hold None: the values that are not None, and the
\* keys whose value is None
PyDict(vals, nulls) == [vals |-> vals, nulls |-> nulls]
PyKeys(d) == DOMAIN d.vals \cup d.nulls

\* d[k] of a key that d has
PyGet(d, k) == IF k \in DOMAIN d.vals THEN Py(d.vals[k]) ELSE PyNone

\* d[k] = v
PySet(d, k, v) ==
    IF v.is_none
    THEN PyDict([x \in DOMAIN d.vals \ {k} |-> d.vals[x]], d.nulls \cup {k})
    ELSE PyDict([x \in DOMAIN d.vals \cup {k} |-> IF x = k THEN v.value ELSE d.vals[x]],
                d.nulls \ {k})

\* d.pop(k, default): what it returns, and what it leaves of d
PyPopValue(d, k, default) == IF k \in PyKeys(d) THEN PyGet(d, k) ELSE default
PyPopRest(d, k) == PyDict([x \in DOMAIN d.vals \ {k} |-> d.vals[x]], d.nulls \ {k})

\* {k: v for (k, v) in d.items() if k in fields}
PyRestrict(d, fields) ==
    PyDict([x \in DOMAIN d.vals \cap fields |-> d.vals[x]], d.nulls \cap fields)

\* the None values left in
dict_no_none_keeps_none(d) == d

\* dict_no_none(**d)
dict_no_none(d) == PyDict(d.vals, {})

\* value.get("process_graph") of a dict
GetProcessGraph(process) ==
    IF "process_graph" \in DOMAIN process THEN Py(process["process_graph"]) ELSE PyNone

\* datetime values, and date_to_rfc3339 of them
JobCreated == <<2017, 1, 1, 9, 32, 12>>
JobUpdated == <<2017, 1, 2, 0, 0, 0>>
ServiceCreated == <<2020, 4, 9, 15, 5, 8>>
date_to_rfc3339(d) ==
    CASE d = JobCreated -> "2017-01-01T09:32:12Z"
      [] d = JobUpdated -> "2017-01-02T00:00:00Z"
      [] d = ServiceCreated -> "2020-04-09T15:05:08Z"

\* the fields of the named tuple; a field that is None is left out of the record
BatchJobMetadataFields ==
    {"id", "process", "status", "created", "job_options", "title", "description", "progress", "updated"}

\* BatchJobMetadata.prepare_for_json
BatchJobMetadata_prepare_for_json(metadata) ==
    LET d == PyDict(metadata, BatchJobMetadataFields \ DOMAIN metadata)
        created == IF "created" \in DOMAIN metadata
                   THEN Py(date_to_rfc3339(metadata["created"])) ELSE PyNone
        updated == IF "updated" \in DOMAIN metadata
                   THEN Py(date_to_rfc3339(metadata["updated"])) ELSE PyNone
    IN  PySet(PySet(d, "created", created), "updated", updated)

\* the status renamed for every version
JobStatus_always_submitted(status, api_version) ==
    IF status = "created" THEN "submitted" ELSE status

\* if d["status"] == "created": d["status"] = "submitted", below 1.0.0
JobStatus(status, api_version) ==
    IF below(api_version, "1.0.0") /\ status = "created" THEN "submitted" ELSE status

\* process -> process_graph, created -> submitted, below 1.0.0
RenameJobFields(d, api_version) ==
    IF below(api_version, "1.0.0")
    THEN LET process == PyPopValue(d, "process", Py(EmptyDict))
             d1 == PySet(PyPopRest(d, "process"), "process_graph", GetProcessGraph(process.value))
             created == PyPopValue(d1, "created", PyNone)
         IN  PySet(PyPopRest(d1, "created"), "submitted", created)
    ELSE d

\* _jsonable_batch_job_metadata, for the version of the request
_jsonable_batch_job_metadata(metadata, api_version, full) ==
    LET fields == {"id", "title", "description", "status", "created", "updated", "plan", "costs", "budget"}
                      \cup (IF full THEN {"process", "progress"} ELSE {})
        d == PyRestrict(BatchJobMetadata_prepare_for_json(metadata), fields)
        d1 == RenameJobFields(d, api_version)
        d2 == PySet(d1, "status", Py(JobStatus(d1.vals["status"], api_version)))
    IN  dict_no_none(d2)

\* ServiceMetadata.prepare_for_json
ServiceMetadataFields ==
    { "id", "process", "url", "type", "enabled", "attributes", "title", "description",
      "configuration", "created", "plan", "costs", "budget" }
ServiceMetadata_prepare_for_json(metadata) ==
    LET d == PyDict(metadata, ServiceMetadataFields \ DOMAIN metadata)
        created == IF "created" \in DOMAIN metadata
                   THEN Py(date_to_rfc3339(metadata["created"])) ELSE PyNone
    IN  PySet(d, "created", created)

\* x or y of python
PyOr(x, y) == IF x.is_none \/ x.value = <<>> THEN y ELSE x

\* the renaming skipped
RenameServiceFields_skipped(d, api_version, full) == d

\* process -> process_graph, configuration -> parameters, created -> submitted, below 1.0.0
RenameServiceFields(d, api_version, full) ==
    IF below(api_version, "1.0.0")
    THEN LET process == PyPopValue(d, "process", Py(EmptyDict))
             d1 == PySet(PyPopRest(d, "process"), "process_graph", GetProcessGraph(process.value))
             configuration == PyPopValue(d1, "configuration", PyNone)
             d2 == PySet(PyPopRest(d1, "configuration"), "parameters",
                         PyOr(configuration, IF full THEN Py(EmptyDict) ELSE PyNone))
             created == PyPopValue(d2, "created", PyNone)
         IN  PySet(PyPopRest(d2, "created"), "submitted", created)
    ELSE d

\* _jsonable_service_metadata, for the version of the request
_jsonable_service_metadata(metadata, api_version, full) ==
    LET d == ServiceMetadata_prepare_for_json(metadata)
        d1 == IF ~full THEN PyPopRest(PyPopRest(d, "process"), "attributes") ELSE d
    IN  dict_no_none(RenameServiceFields(d1, api_version, full))

\* the users, the job ids and the service ids
Users == {"u1", "u2"}
JobIds == {"j1", "j2"}
ServiceIds == {"s1", "s2"}

GraphFoo == [foo |-> [process_id |-> "foo", arguments |-> <<>>]]

\* a job as create_job stores it, in a status that the backend may have set
CreatedJob(job_id, status) ==
    [id |-> job_id, status |-> status, process |-> [process_graph |-> GraphFoo], created |-> JobCreated]

\* the optional fields of a job, all set
JobDetails ==
    [ job_options |-> [driver |-> "2G"], title |-> "title", description |-> "text",
      progress |-> 50, updated |-> JobUpdated ]

JobStatuses == {"created", "running", "finished"}

\* the jobs of an id: as created, with all the optional fields, and without a
\* creation time
JobRecords(job_id) ==
    {CreatedJob(job_id, status) : status \in JobStatuses}
    \cup {JobDetails @@ CreatedJob(job_id, status) : status \in JobStatuses}
    \cup {[id |-> job_id, status |-> "created", process |-> [process_graph |-> GraphFoo]]}

\* the keys that the registry may hold
JobKeys == {<<"u1", "j1">>, <<"u1", "j2">>, <<"u2", "j1">>}

\* the registries: at most MaxJobs jobs, in insertion order, one per key
JobRegistries ==
    LET entries == UNION {{[key |-> k, value |-> j] : j \in JobRecords(k[2])} : k \in JobKeys}
        seqs == UNION {[1..n -> entries] : n \in 0..MaxJobs}
    IN  {r \in seqs : \A i, j \in 1..Len(r) : r[i].key = r[j].key => i = j}

\* a service, with its required fields
BaseService(service_id) ==
    [ id |-> service_id, process |-> [process_graph |-> GraphFoo], url |-> "https://oeo.net/wmts/foo",
      type |-> "WMTS", enabled |-> TRUE, attributes |-> <<>> ]

\* the services of an id: with and without title and creation time; without
\* configuration, with an empty one and with one that says something
ServiceRecords(service_id) ==
    LET described == {EmptyDict, [title |-> "Test service", created |-> ServiceCreated]}
        configured == {EmptyDict, [configuration |-> EmptyDict],
                       [configuration |-> [version |-> "0.5.8"]]}
    IN  {d @@ c @@ BaseService(service_id) : d \in described, c \in configured}

\* the registries: at most MaxServices services, one per id
ServiceRegistries ==
    LET entries == UNION {ServiceRecords(i) : i \in ServiceIds}
        seqs == UNION {[1..n -> entries] : n \in 0..MaxServices}
    IN  {r \in seqs : \A i, j \in 1..Len(r) : r[i]["id"] = r[j]["id"] => i = j}

\* DummyBatchJobs.get_user_jobs
RECURSIVE get_user_jobs(_, _)
get_user_jobs(user_id, n) ==
    IF n = 0 THEN <<>>
    ELSE IF _job_registry[n].key[1] = user_id
         THEN Append(get_user_jobs(user_id, n - 1), _job_registry[n].value)
         ELSE get_user_jobs(user_id, n - 1)

\* DummyBatchJobs.get_job_info
HasJob(job_id, user_id) ==
    \E i \in 1..Len(_job_registry) : _job_registry[i].key = <<user_id, job_id>>
get_job_info_of(job_id, user_id) ==
    _job_registry[CHOOSE i \in 1..Len(_job_registry) : _job_registry[i].key = <<user_id, job_id>>].value

JobNotFound(job_id) ==
    OpenEOApiException(404, "JobNotFound", <<"The job", job_id, "does not exist.">>)
ServiceNotFound(service_id) ==
    OpenEOApiException(404, "ServiceNotFound", <<"Service", service_id, "does not exist.">>)

\* DummySecondaryServices.service_info: next(s for s in self._registry if s.id == service_id)
HasService(service_id) == \E i \in 1..Len(_registry) : _registry[i]["id"] = service_id
service_info(service_id) ==
    _registry[CHOOSE i \in 1..Len(_registry) :
                /\ _registry[i]["id"] = service_id
                /\ \A j \in 1..(i - 1) : _registry[j]["id"] # service_id]

NoEntRequest == [view |-> None, version |-> NoVersionSegment, user |-> None, id |-> None]

EntIdle ==
    /\ ent_request = NoEntRequest
    /\ ent_response = NoResponse
    /\ job_call = NoCall

\* the backend of the dummy package, and the one of the base classes
DummyBackendImplementation ==
    [ secondary_services |-> "DummySecondaryServices", catalog |-> "DummyCatalog",
      batch_jobs |-> "DummyBatchJobs" ]
BaseBackendImplementation ==
    [ secondary_services |-> "SecondaryServices", catalog |-> "CollectionCatalog",
      batch_jobs |-> "BatchJobs" ]

\* what a call of the backend comes to: it raises, or it returns a value
Raises(exception) == [raised |-> exception, value |-> None]
Returns(value) == [raised |-> None, value |-> value]

\* backend_implementation.batch_jobs.get_user_jobs(user_id)
batch_jobs_get_user_jobs(user_id) ==
    IF backend_implementation.batch_jobs = "BatchJobs" THEN Raises("NotImplementedError")
    ELSE Returns(get_user_jobs(user_id, Len(_job_registry)))

\* backend_implementation.batch_jobs.get_job_info(job_id, user_id)
batch_jobs_get_job_info(job_id, user_id) ==
    IF backend_implementation.batch_jobs = "BatchJobs" THEN Raises("NotImplementedError")
    ELSE IF ~HasJob(job_id, user_id) THEN Raises("JobNotFoundException")
    ELSE Returns(get_job_info_of(job_id, user_id))

\* backend_implementation.secondary_services.list_services()
secondary_services_list_services ==
    IF backend_implementation.secondary_services = "SecondaryServices" THEN Returns(<<>>)
    ELSE Returns(_registry)

\* backend_implementation.secondary_services.service_info(service_id)
secondary_services_service_info(service_id) ==
    IF backend_implementation.secondary_services = "SecondaryServices"
    THEN Raises("NotImplementedError")
    ELSE IF ~HasService(service_id) THEN Raises("StopIteration")
    ELSE Returns(service_info(service_id))

\* the response of the error handlers to an exception that left a view
ErrorResponse(exception, id) ==
    CASE exception = "JobNotFoundException" -> JobNotFound(id)
      [] exception = "ServiceNotFoundException" -> ServiceNotFound(id)
      [] exception = "CollectionNotFoundException" -> CollectionNotFound(id)
      [] OTHER -> InternalError(exception)

\* try: ... except Exception: raise ServiceNotFoundException(service_id)
CaughtAsServiceNotFound(exception) ==
    IF exception = None THEN None ELSE "ServiceNotFoundException"

\* GET /jobs, with the bearer token of user
list_jobs(token, user) ==
    /\ ent_request = NoEntRequest
    /\ ent_request' = [view |-> "list_jobs", version |-> token, user |-> user, id |-> None]
    /\ LET pulled == PullVersion(token)
           jobs == batch_jobs_get_user_jobs(user)
       IN  ent_response' =
               IF pulled.raised THEN pulled.error
               ELSE IF jobs.raised # None THEN ErrorResponse(jobs.raised, None)
               ELSE [kind |-> "jobs", status_code |-> 200,
                     json |-> [jobs |-> [i \in 1..Len(jobs.value) |->
                                            _jsonable_batch_job_metadata(jobs.value[i],
                                                                         pulled.g.api_version, FALSE)],
                               links |-> <<>>]]
    /\ UNCHANGED <<_job_registry, _registry, backend_implementation, job_call>>
    /\ UNCHANGED <<app_vars, reg_vars, col_vars, norm_call, proc_vars>>

\* GET /jobs/<job_id>, with the bearer token of user
get_job_info(token, job_id, user) ==
    /\ ent_request = NoEntRequest
    /\ ent_request' = [view |-> "get_job_info", version |-> token, user |-> user, id |-> job_id]
    /\ LET pulled == PullVersion(token)
           job_info == batch_jobs_get_job_info(job_id, user)
       IN  ent_response' =
               IF pulled.raised THEN pulled.error
               ELSE IF job_info.raised # None THEN ErrorResponse(job_info.raised, job_id)
               ELSE [kind |-> "job", status_code |-> 200,
                     json |-> _jsonable_batch_job_metadata(job_info.value, pulled.g.api_version, TRUE)]
    /\ UNCHANGED <<_job_registry, _registry, backend_implementation, job_call>>
    /\ UNCHANGED <<app_vars, reg_vars, col_vars, norm_call, proc_vars>>

\* GET /services
services_get(token) ==
    /\ ent_request = NoEntRequest
    /\ ent_request' = [view |-> "services_get", version |-> token, user |-> None, id |-> None]
    /\ LET pulled == PullVersion(token)
           services == secondary_services_list_services
       IN  ent_response' =
               IF pulled.raised THEN pulled.error
               ELSE [kind |-> "services", status_code |-> 200,
                     json |-> [services |-> [i \in 1..Len(services.value) |->
                                                _jsonable_service_metadata(services.value[i],
                                                                           pulled.g.api_version, FALSE)],
                               links |-> <<>>]]
    /\ UNCHANGED <<_job_registry, _registry, backend_implementation, job_call>>
    /\ UNCHANGED <<app_vars, reg_vars, col_vars, norm_call, proc_vars>>

\* GET /services/<service_id>
get_service_info(token, service_id) ==
    /\ ent_request = NoEntRequest
    /\ ent_request' = [view |-> "get_service_info", version |-> token, user |-> None, id |-> service_id]
    /\ LET pulled == PullVersion(token)
           metadata == secondary_services_service_info(service_id)
           raised == CaughtAsServiceNotFound(metadata.raised)
       IN  ent_response' =
               IF pulled.raised THEN pulled.error
               ELSE IF raised # None THEN ErrorResponse(raised, service_id)
               ELSE [kind |-> "service", status_code |-> 200,
                     json |-> _jsonable_service_metadata(metadata.value, pulled.g.api_version, TRUE)]
    /\ UNCHANGED <<_job_registry, _registry, backend_implementation, job_call>>
    /\ UNCHANGED <<app_vars, reg_vars, col_vars, norm_call, proc_vars>>

\* container[key] of python: TypeError on None, KeyError on a dict without the key
Subscript(container, key) ==
    IF container = PyNone THEN Raises("TypeError")
    ELSE IF key \notin DOMAIN container THEN Raises("KeyError")
    ELSE Returns(container[key])

\* the graph read from the top of the body whatever the version
GraphLocation_always_top(api_version) == <<"process_graph">>

\* where _extract_process_graph reads the graph of a request of that version
GraphLocation(api_version) ==
    IF at_least(api_version, "1.0.0") THEN <<"process", "process_graph">> ELSE <<"process_graph">>

\* _extract_process_graph(post_data): a KeyError on the way to the graph becomes a
\* ProcessGraphMissingException
_extract_process_graph(post_data, api_version) ==
    LET path == GraphLocation(api_version)
        first == Subscript(post_data, path[1])
        graph == IF Len(path) = 1 \/ first.raised # None THEN first
                 ELSE Subscript(first.value, path[2])
    IN  IF graph.raised = "KeyError" THEN Raises("ProcessGraphMissingException") ELSE graph

ProcessGraphMissing ==
    OpenEOApiException(400, "ProcessGraphMissing", <<"No valid process graph specified.">>)

\* DummyBatchJobs.create_job: the BatchJobMetadata stored under (user_id, job_id)
NewJob(job_id, process, job_options) ==
    IF job_options = PyNone
    THEN [id |-> job_id, status |-> "created", process |-> process, created |-> JobCreated]
    ELSE [id |-> job_id, status |-> "created", process |-> process, created |-> JobCreated,
          job_options |-> job_options.value]

\* DummyBatchJobs.generate_job_id: a uuid, an id that no job has
FreshJobIds(user_id) ==
    {job_id \in JobIds : \A i \in 1..Len(_job_registry) : _job_registry[i].key[2] # job_id}

\* post_data.get("job_options")
JobOptionsOf(post_data) ==
    IF "job_options" \in DOMAIN post_data THEN Py(post_data["job_options"]) ELSE PyNone

\* url_for('.get_job_info', job_id=job_id), with the version that _add_version adds
JobLocation(request_version, job_id) == <<"openeo", request_version, "jobs", job_id>>

\* POST /jobs, with the bearer token of user
create_job(token, user, post_data, job_id) ==
    /\ job_id \in FreshJobIds(user)
    /\ Len(_job_registry) < MaxJobs
    /\ ent_request' = [view |-> "create_job", version |-> token, user |-> user, id |-> None,
                       post_data |-> post_data]
    /\ LET pulled == PullVersion(token)
           graph == _extract_process_graph(post_data, pulled.g.api_version)
       IN  IF pulled.raised
           THEN ent_response' = pulled.error /\ UNCHANGED _job_registry
           ELSE IF graph.raised # None
           THEN /\ ent_response' = IF graph.raised = "ProcessGraphMissingException"
                                   THEN ProcessGraphMissing ELSE InternalError(graph.raised)
                /\ UNCHANGED _job_registry
           ELSE /\ _job_registry' =
                       Append(_job_registry,
                              [key |-> <<user, job_id>>,
                               value |-> NewJob(job_id, [process_graph |-> graph.value],
                                                JobOptionsOf(post_data))])
                /\ ent_response' =
                       [kind |-> "created", status_code |-> 201,
                        headers |-> [Location |-> JobLocation(pulled.g.request_version, job_id),
                                     OpenEOIdentifier |-> job_id]]
    /\ UNCHANGED <<_registry, backend_implementation, job_call>>
    /\ UNCHANGED <<app_vars, reg_vars, col_vars, norm_call, proc_vars>>

\* the bodies that a client may post: shaped for 1.0, shaped for 0.4, with job
\* options, without a graph, and with a process that holds no graph or is null
JobOptions == [driver |-> "2G"]
PostBodies ==
    { [process |-> [process_graph |-> GraphFoo, summary |-> "my foo job"]],
      [process |-> [process_graph |-> GraphFoo], job_options |-> JobOptions],
      [title |-> "foo job", process_graph |-> GraphFoo],
      [process_graph |-> GraphFoo, job_options |-> JobOptions],
      [title |-> "foo job"],
      [process |-> [summary |-> "my foo job"]],
      [process |-> PyNone] }

\* the outcome of a call of a method of DummyBatchJobs
JobCall(method, job_id, user_id, outcome) ==
    [called |-> TRUE, method |-> method, job_id |-> job_id, user_id |-> user_id,
     raised |-> outcome.raised,
     value |-> IF outcome.raised # None THEN PyNone ELSE outcome.value]

\* DummyBatchJobs.create_job(user_id, process, api_version), called directly
DummyBatchJobs_create_job(user_id, job_id) ==
    /\ job_id \in FreshJobIds(user_id)
    /\ Len(_job_registry) < MaxJobs
    /\ LET job_info == NewJob(job_id, [process_graph |-> GraphFoo], PyNone)
       IN  /\ _job_registry' = Append(_job_registry, [key |-> <<user_id, job_id>>, value |-> job_info])
           /\ job_call' = JobCall("create_job", job_id, user_id, Returns(job_info))
    /\ UNCHANGED <<_registry, ent_request, ent_response, backend_implementation>>
    /\ UNCHANGED <<app_vars, reg_vars, col_vars, norm_call, proc_vars>>

\* cls._job_registry[(user_id, job_id)]._replace(status=status), stored under the same key
ReplaceStatus(job_id, user_id, status) ==
    [i \in 1..Len(_job_registry) |->
        IF _job_registry[i].key = <<user_id, job_id>>
        THEN [_job_registry[i] EXCEPT !.value.status = status]
        ELSE _job_registry[i]]

\* the effect of DummyBatchJobs._update_status, also when start_job calls it
UpdateStatus(method, job_id, user_id, status) ==
    /\ IF HasJob(job_id, user_id)
       THEN /\ _job_registry' = ReplaceStatus(job_id, user_id, status)
            /\ job_call' = JobCall(method, job_id, user_id, Returns(PyNone))
       ELSE /\ UNCHANGED _job_registry
            /\ job_call' = JobCall(method, job_id, user_id, Raises("JobNotFoundException"))
    /\ UNCHANGED <<_registry, ent_request, ent_response, backend_implementation>>
    /\ UNCHANGED <<app_vars, reg_vars, col_vars, norm_call, proc_vars>>

\* DummyBatchJobs._update_status(job_id, user_id, status)
_update_status(job_id, user_id, status) == UpdateStatus("_update_status", job_id, user_id, status)

\* DummyBatchJobs.start_job(job_id, user_id)
start_job(job_id, user_id) == UpdateStatus("start_job", job_id, user_id, "running")

\* DummyBatchJobs.cancel_job(job_id, user_id): looks the job up and does no more
cancel_job(job_id, user_id) ==
    /\ job_call' = JobCall("cancel_job", job_id, user_id,
                           IF HasJob(job_id, user_id) THEN Returns(PyNone)
                           ELSE Raises("JobNotFoundException"))
    /\ UNCHANGED <<_job_registry, _registry, ent_request, ent_response, backend_implementation>>
    /\ UNCHANGED <<app_vars, reg_vars, col_vars, norm_call, proc_vars>>

\* results for every job that was started
HasResults_when_started(status) == status \in {"running", "finished"}

\* the test of DummyBatchJobs.get_results on the status of the job
HasResults(status) == status = "finished"

\* the files of a finished job
ResultFiles(job_id) == [output_tiff |-> <<"/data/jobs", job_id, "out">>]

\* DummyBatchJobs.get_results(job_id, user_id)
get_results(job_id, user_id) ==
    /\ job_call' = JobCall("get_results", job_id, user_id,
                           IF ~HasJob(job_id, user_id) THEN Raises("JobNotFoundException")
                           ELSE IF ~HasResults(get_job_info_of(job_id, user_id).status)
                           THEN Raises("JobNotFinishedException")
                           ELSE Returns(ResultFiles(job_id)))
    /\ UNCHANGED <<_job_registry, _registry, ent_request, ent_response, backend_implementation>>
    /\ UNCHANGED <<app_vars, reg_vars, col_vars, norm_call, proc_vars>>

\* POST /jobs/<job_id>/results, with the bearer token of user
queue_job(token, job_id, user) ==
    /\ ent_request' = [view |-> "queue_job", version |-> token, user |-> user, id |-> job_id]
    /\ LET pulled == PullVersion(token)
       IN  IF pulled.raised
           THEN ent_response' = pulled.error /\ UNCHANGED _job_registry
           ELSE IF ~HasJob(job_id, user)
           THEN ent_response' = JobNotFound(job_id) /\ UNCHANGED _job_registry
           ELSE /\ _job_registry' = ReplaceStatus(job_id, user, "running")
                /\ ent_response' = [kind |-> "queued", status_code |-> 202]
    /\ UNCHANGED <<_registry, backend_implementation, job_call>>
    /\ UNCHANGED <<app_vars, reg_vars, col_vars, norm_call, proc_vars>>

\* the statuses that a backend may set
StatusUpdates == {"queued", "running", "finished", "error"}

\* the ids a client may ask for
RequestedJobIds == JobIds \cup {"unknown"}
RequestedServiceIds == ServiceIds \cup {"wmts-invalid"}

(***************************************************************************)
(* Process specs (openeo_driver.processes), as the specification and the   *)
(* tests of the repository describe them.                                  *)
(***************************************************************************)
NoSpec == [id |-> None]
NoDicts == [d040 |-> NoCall, d100 |-> NoCall]

\* ProcessSpec.RASTERCUBE, the marker for a raster cube in place of a schema
RASTERCUBE == [sentinel |-> "raster-cube"]

\* the schema as the wire shapes carry it
RenderSchema(schema) ==
    IF schema = RASTERCUBE THEN [type |-> "object", format |-> "raster-cube"] ELSE schema

\* ProcessSpec(id, description)
ProcessSpec(id, description) ==
    /\ spec = NoSpec
    /\ spec' = [id |-> id, description |-> description, _parameters |-> <<>>, _returns |-> PyNone]
    /\ UNCHANGED <<spec_dicts, _processes, proc_call>>
    /\ UNCHANGED <<app_vars, reg_vars, col_vars, norm_call, ent_vars>>

ParamNames(parameters) == {parameters[i].name : i \in 1..Len(parameters)}

\* ProcessSpec.param(name, description, schema, required): one more parameter,
\* after the ones declared before
param(name, description, schema, required) ==
    /\ spec # NoSpec /\ spec_dicts = NoDicts
    /\ Len(spec._parameters) < MaxParams
    /\ name \notin ParamNames(spec._parameters)
    /\ spec' = [spec EXCEPT !._parameters =
                    Append(@, [name |-> name, description |-> description,
                               schema |-> schema, required |-> required])]
    /\ UNCHANGED <<spec_dicts, _processes, proc_call>>
    /\ UNCHANGED <<app_vars, reg_vars, col_vars, norm_call, ent_vars>>

\* ProcessSpec.returns(description, schema)
returns(description, schema) ==
    /\ spec # NoSpec /\ spec_dicts = NoDicts
    /\ spec' = [spec EXCEPT !._returns = Py([description |-> description, schema |-> schema])]
    /\ UNCHANGED <<spec_dicts, _processes, proc_call>>
    /\ UNCHANGED <<app_vars, reg_vars, col_vars, norm_call, ent_vars>>

\* the declared return on the wire
ReturnsDict(r) == [description |-> r.description, schema |-> RenderSchema(r.schema)]

\* a parameter in the mapping of the pre-1.0 shape
ParamTo040(p) ==
    [description |-> p.description, required |-> p.required, schema |-> RenderSchema(p.schema)]

\* the parameter object that says optional where the declaration says required
ParamTo100_optional_is_required(p) ==
    [name |-> p.name, description |-> p.description, optional |-> p.required,
     schema |-> RenderSchema(p.schema)]

\* a parameter object in the array of the 1.0 shape
ParamTo100(p) ==
    [name |-> p.name, description |-> p.description, optional |-> ~p.required,
     schema |-> RenderSchema(p.schema)]

\* the parameter of that name
ParamOf(parameters, name) ==
    parameters[CHOOSE i \in 1..Len(parameters) : parameters[i].name = name]

\* the outcome of a rendering: an AssertionError without a declared return, and a
\* warning without parameters
Rendering(s, dict) ==
    [called |-> TRUE,
     warned |-> Len(s._parameters) = 0,
     raised |-> IF s._returns = PyNone THEN "AssertionError" ELSE None,
     value |-> IF s._returns = PyNone THEN EmptyDict ELSE dict]

Dict040(s) ==
    [id |-> s.id, description |-> s.description,
     parameters |-> [name \in ParamNames(s._parameters) |-> ParamTo040(ParamOf(s._parameters, name))],
     parameter_order |-> [i \in 1..Len(s._parameters) |-> s._parameters[i].name],
     returns |-> ReturnsDict(s._returns.value)]

Dict100(s) ==
    [id |-> s.id, description |-> s.description,
     parameters |-> [i \in 1..Len(s._parameters) |-> ParamTo100(s._parameters[i])],
     returns |-> ReturnsDict(s._returns.value)]

\* ProcessSpec.to_dict_040()
to_dict_040 ==
    /\ spec # NoSpec /\ spec_dicts.d040 = NoCall
    /\ spec_dicts' = [spec_dicts EXCEPT !.d040 = Rendering(spec, Dict040(spec))]
    /\ UNCHANGED <<spec, _processes, proc_call>>
    /\ UNCHANGED <<app_vars, reg_vars, col_vars, norm_call, ent_vars>>

\* ProcessSpec.to_dict_100()
to_dict_100 ==
    /\ spec # NoSpec /\ spec_dicts.d100 = NoCall
    /\ spec_dicts' = [spec_dicts EXCEPT !.d100 = Rendering(spec, Dict100(spec))]
    /\ UNCHANGED <<spec, _processes, proc_call>>
    /\ UNCHANGED <<app_vars, reg_vars, col_vars, norm_call, ent_vars>>

\* what the process specs are built from
ProcessIds == {"mean"}
ProcessDescriptions == {"Mean value"}
ParameterNames == {"input", "mask", "data"}
ParameterDescriptions == {"Input data", "The mask"}
Schemas == {RASTERCUBE, [type |-> "number"]}

\* ProcessRegistry.load_predefined_spec(name)
load_predefined_spec(name) ==
    [id |-> name, description |-> <<"predefined description of", name>>,
     parameters |-> <<>>, returns |-> [schema |-> [type |-> "number"]]]

\* a process function, and the wrapper that add_deprecated puts around it
Function(name) == [name |-> name, returns |-> 42, deprecated |-> FALSE]
Deprecated(f) == [f EXCEPT !.deprecated = TRUE]

\* ProcessRegistry.add_process(name, function, spec); a name is registered once
add_process(name, function, process_spec) ==
    /\ name \notin DOMAIN _processes
    /\ _processes' = (name :> [function |-> function, spec |-> process_spec]) @@ _processes
    /\ UNCHANGED <<spec, spec_dicts, proc_call>>
    /\ UNCHANGED <<app_vars, reg_vars, col_vars, norm_call, ent_vars>>

\* ProcessRegistry.add_spec_by_name(name)
add_spec_by_name(name) == add_process(name, PyNone, Py(load_predefined_spec(name)))

\* ProcessRegistry.add_function(f), for the function f of that name
add_function(name) == add_process(name, Py(Function(name)), Py(load_predefined_spec(name)))

\* ProcessRegistry.add_deprecated(f), for the function f of that name
add_deprecated(name) == add_process(name, Py(Deprecated(Function(name))), PyNone)

ProcessUnsupported(name) == [called |-> TRUE, op |-> "get_spec", name |-> name,
                             raised |-> "ProcessUnsupportedException", value |-> None, warned |-> FALSE]

\* the lookup that looks at the name only
HasSpec_any_registered(name) == name \in DOMAIN _processes

\* the test of ProcessRegistry.get_spec: registered, and with a spec
HasSpec(name) == name \in DOMAIN _processes /\ _processes[name].spec # PyNone

\* ProcessRegistry.get_spec(name)
get_spec(name) ==
    /\ proc_call' = IF ~HasSpec(name) THEN ProcessUnsupported(name)
                    ELSE [called |-> TRUE, op |-> "get_spec", name |-> name, raised |-> None,
                          value |-> IF _processes[name].spec = PyNone THEN None
                                    ELSE _processes[name].spec.value,
                          warned |-> FALSE]
    /\ UNCHANGED <<spec, spec_dicts, _processes>>
    /\ UNCHANGED <<app_vars, reg_vars, col_vars, norm_call, ent_vars>>

\* ProcessRegistry.get_function(name)(), for a name registered with a function:
\* the wrapper of a deprecated function warns and calls it
call_function(name) ==
    /\ name \in DOMAIN _processes /\ _processes[name].function # PyNone
    /\ LET f == _processes[name].function.value
       IN  proc_call' = [called |-> TRUE, op |-> "call", name |-> name, raised |-> None,
                         value |-> f.returns, warned |-> f.deprecated]
    /\ UNCHANGED <<spec, spec_dicts, _processes>>
    /\ UNCHANGED <<app_vars, reg_vars, col_vars, norm_call, ent_vars>>

ProcessNames == {"max", "min", "foo"}
RequestedProcessNames == ProcessNames \cup {"blergh"}

ProcIdle ==
    /\ spec = NoSpec /\ spec_dicts = NoDicts
    /\ _processes = <<>> /\ proc_call = NoCall

(***************************************************************************)
(* Specifications                                                          *)
(***************************************************************************)
Init ==
    /\ AppInit /\ RegInit /\ catalog = <<>> /\ ColIdle /\ norm_call = NoCall
    /\ _job_registry = <<>> /\ _registry = <<>> /\ EntIdle /\ ProcIdle
    /\ backend_implementation = DummyBackendImplementation

NextApp ==
    \E r \in Requests : _pull_version(r) \/ index(r) \/ well_known_openeo(r)

SpecApp == Init /\ [][NextApp]_vars

NextRegistry ==
    \/ \E name \in ViewNames, path \in RulePaths, methods \in RouteMethods :
          route(name, path, methods)
    \/ \E name \in ViewNames, hidden \in BOOLEAN, version \in Predicates :
          add_endpoint(name, hidden, version)
    \/ StartServing
    \/ \E api_version \in ListingVersions : ListEndpoints(api_version)

SpecRegistry == Init /\ [][NextRegistry]_vars

InitCollections ==
    /\ AppInit /\ RegInit /\ catalog \in Catalogs /\ ColIdle /\ norm_call = NoCall
    /\ _job_registry = <<>> /\ _registry = <<>> /\ EntIdle /\ ProcIdle
    /\ backend_implementation = DummyBackendImplementation

NextCollections ==
    \E token \in Tokens \cup {NoVersionSegment} :
        \/ collections(token)
        \/ \E collection_id \in RequestedIds : collection_by_id(token, collection_id)

SpecCollections == InitCollections /\ [][NextCollections]_vars

NextNormalize ==
    \/ \E metadata \in Records, api_version \in CanonicalVersions, full \in BOOLEAN :
          normalize(metadata, api_version, full)
    \/ normalize_again

SpecNormalize == Init /\ [][NextNormalize]_vars

\* the job views read the job registry only and the service views the service
\* registry only: the runs start with jobs or with services
InitEntities ==
    /\ AppInit /\ RegInit /\ catalog = <<>> /\ ColIdle /\ norm_call = NoCall
    /\ EntIdle /\ ProcIdle
    /\ backend_implementation = DummyBackendImplementation
    /\ \/ _job_registry \in JobRegistries /\ _registry = <<>>
       \/ _job_registry = <<>> /\ _registry \in ServiceRegistries

NextEntities ==
    \E token \in Tokens \cup {NoVersionSegment} :
        \/ \E user \in Users : list_jobs(token, user)
        \/ \E user \in Users, job_id \in RequestedJobIds : get_job_info(token, job_id, user)
        \/ services_get(token)
        \/ \E service_id \in RequestedServiceIds : get_service_info(token, service_id)

SpecEntities == InitEntities /\ [][NextEntities]_vars

\* what the get_all_metadata of a catalog class of a backend may return: the
\* records of its own store, of which some may have no id
ListedRecords == CatalogRecords \cup {Plain, Style100, PrivateField @@ Plain}
Listings ==
    LET seqs == UNION {[1..n -> ListedRecords] : n \in 0..MaxCatalog}
    IN  {c \in seqs : \A i, j \in 1..Len(c) :
            ("id" \in DOMAIN c[i] /\ "id" \in DOMAIN c[j] /\ c[i]["id"] = c[j]["id"]) => i = j}

InitListing ==
    /\ AppInit /\ RegInit /\ catalog \in Listings /\ ColIdle /\ norm_call = NoCall
    /\ _job_registry = <<>> /\ _registry = <<>> /\ EntIdle /\ ProcIdle
    /\ backend_implementation = [DummyBackendImplementation EXCEPT !.catalog = "CustomCatalog"]

NextListing == \E token \in Tokens \cup {NoVersionSegment} : collections(token)

SpecListing == InitListing /\ [][NextListing]_vars

NextProcessSpec ==
    \/ \E id \in ProcessIds, description \in ProcessDescriptions : ProcessSpec(id, description)
    \/ \E name \in ParameterNames, description \in ParameterDescriptions,
          schema \in Schemas, required \in BOOLEAN : param(name, description, schema, required)
    \/ \E description \in ParameterDescriptions, schema \in Schemas : returns(description, schema)
    \/ to_dict_040
    \/ to_dict_100

SpecProcessSpec == Init /\ [][NextProcessSpec]_vars

NextProcessRegistry ==
    \/ \E name \in ProcessNames :
          add_spec_by_name(name) \/ add_function(name) \/ add_deprecated(name) \/ call_function(name)
    \/ \E name \in RequestedProcessNames : get_spec(name)

SpecProcessRegistry == Init /\ [][NextProcessRegistry]_vars

\* the creation of jobs, from an empty registry
NextCreateJob ==
    \E token \in Tokens \cup {NoVersionSegment}, user \in Users,
       post_data \in PostBodies, job_id \in JobIds : create_job(token, user, post_data, job_id)

SpecCreateJob == Init /\ [][NextCreateJob]_vars

\* the methods of DummyBatchJobs in any order, from an empty registry
NextDummyJobs ==
    \E user_id \in Users :
        \/ \E job_id \in JobIds : DummyBatchJobs_create_job(user_id, job_id)
        \/ \E job_id \in RequestedJobIds :
              \/ start_job(job_id, user_id)
              \/ cancel_job(job_id, user_id)
              \/ get_results(job_id, user_id)
              \/ \E status \in StatusUpdates : _update_status(job_id, user_id, status)

SpecDummyJobs == Init /\ [][NextDummyJobs]_vars

\* the requests that change the jobs of the backend, from an empty registry
NextJobRequests ==
    \E token \in Tokens \cup {NoVersionSegment}, user \in Users :
        \/ \E post_data \in PostBodies, job_id \in JobIds : create_job(token, user, post_data, job_id)
        \/ \E job_id \in RequestedJobIds : queue_job(token, job_id, user)

SpecJobRequests == Init /\ [][NextJobRequests]_vars

\* collection requests one after the other, on one catalog
InitCollectionRequests ==
    /\ AppInit /\ RegInit /\ catalog \in HandedOutCatalogs /\ ColIdle /\ norm_call = NoCall
    /\ _job_registry = <<>> /\ _registry = <<>> /\ EntIdle /\ ProcIdle
    /\ backend_implementation = [DummyBackendImplementation EXCEPT !.catalog = "CustomCatalog"]

NextCollectionRequests ==
    \/ \E token \in Tokens \cup {NoVersionSegment} :
          \/ collections(token)
          \/ \E collection_id \in RequestedIds : collection_by_id(token, collection_id)
    \/ ResponseSent

SpecCollectionRequests == InitCollectionRequests /\ [][NextCollectionRequests]_vars

\* the lookups of one entity, against the dummy backend and against a backend
\* that keeps the base classes for its jobs and its services
InitLookups ==
    /\ AppInit /\ RegInit /\ ColIdle /\ norm_call = NoCall /\ EntIdle /\ ProcIdle
    /\ backend_implementation \in {DummyBackendImplementation, BaseBackendImplementation}
    /\ \/ catalog \in Catalogs /\ _job_registry = <<>> /\ _registry = <<>>
       \/ catalog = <<>> /\ _job_registry \in JobRegistries /\ _registry = <<>>
       \/ catalog = <<>> /\ _job_registry = <<>> /\ _registry \in ServiceRegistries

\* one lookup in a run
NextLookups ==
    /\ col_request = NoColRequest /\ ent_request = NoEntRequest
    /\ \E token \in Tokens \cup {NoVersionSegment} :
        \/ \E collection_id \in RequestedIds : collection_by_id(token, collection_id)
        \/ \E user \in Users, job_id \in RequestedJobIds : get_job_info(token, job_id, user)
        \/ \E service_id \in RequestedServiceIds : get_service_info(token, service_id)

SpecLookups == InitLookups /\ [][NextLookups]_vars

(***************************************************************************)
(* Version resolution                                                      *)
(***************************************************************************)
\* the requests that went through the url value preprocessor
Pulled(r) == pc[r] \in {"view", "done"} /\ request[r].view \in BlueprintViews

\* the version token of request r: its version segment, or the default version
TokenOf(r) == PopVersion(request[r].version)

Rejected(r) ==
    /\ pc[r] = "done"
    /\ response[r].kind = "error"
    /\ response[r].status_code = 501
    /\ response[r].code = "UnsupportedApiVersion"

CatalogKeys == {API_VERSIONS[i].key : i \in 1..Len(API_VERSIONS)}

\* the position of key k in the catalog
CatalogIndex(k) == CHOOSE i \in 1..Len(API_VERSIONS) : API_VERSIONS[i].key = k

\* C1: a request is accepted iff its version token is a catalog key whose entry
\* is supported, and then the canonical version published in g is that entry's
\* version; every other token ends in error 501 UnsupportedApiVersion with
\* nothing published in g.
C1_VersionResolution ==
    \A r \in Requests : Pulled(r) =>
        IF \E i \in 1..Len(API_VERSIONS) :
              API_VERSIONS[i].key = TokenOf(r) /\ API_VERSIONS[i].supported
        THEN /\ ~Rejected(r)
             /\ DOMAIN g[r] = {"request_version", "api_version"}
             /\ \E i \in 1..Len(API_VERSIONS) :
                   /\ API_VERSIONS[i].key = TokenOf(r)
                   /\ g[r].api_version = API_VERSIONS[i].version
        ELSE /\ Rejected(r)
             /\ DOMAIN g[r] = {}

C1_Witness ==
    /\ Pulled(1) /\ request[1].version = "0.4" /\ g[1].api_version = "0.4.2"
    /\ Pulled(2) /\ request[2].version = "0.3" /\ Rejected(2) /\ DOMAIN g[2] = {}

\* C2: the UnsupportedApiVersion error lists exactly the advertised catalog
\* keys, each once, in catalog order.
C2_ErrorListsAdvertised ==
    \A r \in Requests : Rejected(r) =>
        LET s == response[r].message.available
        IN  /\ {s[i] : i \in 1..Len(s)} =
                 {API_VERSIONS[i].key : i \in {j \in 1..Len(API_VERSIONS) : API_VERSIONS[j].advertised}}
            /\ \A i, j \in 1..Len(s) : i < j => CatalogIndex(s[i]) < CatalogIndex(s[j])

C2_Witness ==
    /\ Rejected(1)
    /\ response[1].message.unsupported = "0.0.0"
    /\ response[1].message.available = <<"0.4.0", "0.4.1", "0.4.2", "0.4", "1.0.0", "1.0">>

\* C3: every catalog entry that is advertised is also supported, so every url
\* of the discovery document is accepted by version resolution.
C3_AdvertisedIsSupported ==
    /\ \A i \in 1..Len(API_VERSIONS) : API_VERSIONS[i].advertised => API_VERSIONS[i].supported
    /\ \A r \in Requests : Rejected(r) =>
          \A q \in Requests : (pc[q] = "done" /\ response[q].kind = "versions") =>
              \A i \in 1..Len(response[q].json.versions) :
                  response[q].json.versions[i].url[2] # TokenOf(r)

C3_Witness ==
    /\ pc[1] = "done" /\ response[1].kind = "versions"
    /\ \E i \in 1..Len(response[1].json.versions) :
          /\ response[1].json.versions[i].url[2] = "1.0"
          /\ Pulled(2) /\ request[2].version = "1.0" /\ ~Rejected(2)

\* C4: resolution is idempotent: the canonical version of an accepted token is
\* a supported catalog key that resolves to itself, and two requests with the
\* same token, or with a token and its canonical version, resolve alike.
C4_ResolutionIdempotent ==
    \A r \in Requests : (Pulled(r) /\ ~Rejected(r)) =>
        LET canonical == g[r].api_version
        IN  /\ canonical \in CatalogKeys
            /\ API_VERSIONS[CatalogIndex(canonical)].supported
            /\ API_VERSIONS[CatalogIndex(canonical)].version = canonical
            /\ \A q \in Requests :
                  (Pulled(q) /\ TokenOf(q) \in {TokenOf(r), canonical}) =>
                      /\ ~Rejected(q)
                      /\ g[q].api_version = canonical

C4_Witness ==
    /\ Pulled(1) /\ request[1].version = "1.0" /\ g[1].api_version = "1.0.0"
    /\ Pulled(2) /\ request[2].version = "1.0.0" /\ g[2].api_version = "1.0.0"

(***************************************************************************)
(* The capabilities document                                               *)
(***************************************************************************)
Served(r) == pc[r] = "done" /\ request[r].view = "index" /\ ~Rejected(r)

\* the paths of the endpoint listing of a capabilities document
ListedPaths(doc) == {doc.endpoints[i].path : i \in 1..Len(doc.endpoints)}

OutputFormatsPath == << <<"lit", "output_formats">> >>
FileFormatsPath == << <<"lit", "file_formats">> >>

\* C8: the capabilities document of a supported version lists /output_formats
\* iff the canonical version is below 1.0.0 and /file_formats iff it is at
\* least 1.0.0: exactly one of the two.
C8_ExactlyOneFormatsEndpoint ==
    \A r \in Requests : Served(r) =>
        /\ response[r].kind = "capabilities"
        /\ LET doc == response[r].json
               old == ListLess(VersionComponents[g[r].api_version], <<1, 0, 0>>)
           IN  /\ (OutputFormatsPath \in ListedPaths(doc)) <=> old
               /\ (FileFormatsPath \in ListedPaths(doc)) <=> ~old
               /\ (OutputFormatsPath \in ListedPaths(doc)) # (FileFormatsPath \in ListedPaths(doc))

C8_Witness ==
    /\ Served(1) /\ g[1].api_version = "0.4.0"
    /\ OutputFormatsPath \in ListedPaths(response[1].json)
    /\ Served(2) /\ g[2].api_version = "1.0.0"
    /\ FileFormatsPath \in ListedPaths(response[2].json)

\* C9: for a supported token (alias, full version or the default) the
\* capabilities document reports the canonical version of the token as
\* api_version and the production flag the catalog records for the token.
C9_CapabilitiesVersionFields ==
    \A r \in Requests : Served(r) =>
        /\ response[r].kind = "capabilities"
        /\ response[r].status_code = 200
        /\ response[r].json.api_version = API_VERSIONS[CatalogIndex(TokenOf(r))].version
        /\ response[r].json.production = API_VERSIONS[CatalogIndex(TokenOf(r))].production

C9_Witness ==
    /\ Served(1) /\ request[1].version = "0.4"
    /\ response[1].json.api_version = "0.4.2" /\ response[1].json.production = TRUE
    /\ Served(2) /\ request[2].version = "1.0.0"
    /\ response[2].json.api_version = "1.0.0" /\ response[2].json.production = FALSE

(***************************************************************************)
(* The endpoint registry                                                   *)
(***************************************************************************)
HttpMethods == {"GET", "POST", "HEAD", "OPTIONS"}

\* what a version predicate means for version v
PredicateHolds(p, v) ==
    CASE p.op = "accept_lower" -> ListLess(VersionComponents[v], VersionComponents[p.v])
      [] p.op = "or_higher"    -> ~ListLess(VersionComponents[v], VersionComponents[p.v])
      [] p.op = "or_lower"     -> ~ListLess(VersionComponents[p.v], VersionComponents[v])

\* rule i of the blueprint belongs to a view function that is in the registry
Registered(i) == bp_rules[i].endpoint[2] \in DOMAIN _endpoints

\* rule i is a registered endpoint that is to be listed for version v
VisibleFor(i, v) ==
    /\ Registered(i)
    /\ ~_endpoints[bp_rules[i].endpoint[2]].hidden
    /\ \/ _endpoints[bp_rules[i].endpoint[2]].for_version = NoPredicate
       \/ PredicateHolds(_endpoints[bp_rules[i].endpoint[2]].for_version, v)

\* the methods an endpoint is declared with
DeclaredMethods(i) == bp_rules[i].methods \ {"HEAD", "OPTIONS"}

HasListing == reg_phase = "serving" /\ reg_listing.api_version # None

\* C5: a (path, method) pair is in the capability listing of version v iff
\* some registered endpoint with that path and method is not hidden and has
\* no version predicate or one that holds for v; hidden endpoints, routes
\* that are not in the registry and endpoints whose predicate is false for v
\* contribute nothing.
C5_ListingFilter ==
    HasListing =>
        LET v == reg_listing.api_version
            eps == reg_listing.endpoints
        IN  /\ \A path \in RulePaths, m \in HttpMethods :
                  (\E k \in 1..Len(eps) : eps[k].path = RenderPath(path) /\ m \in eps[k].methods)
                  <=> (\E i \in 1..Len(bp_rules) :
                          bp_rules[i].rule = path /\ m \in DeclaredMethods(i) /\ VisibleFor(i, v))
            /\ \A k \in 1..Len(eps) : \E path \in RulePaths : eps[k].path = RenderPath(path)

C5_Witness ==
    /\ HasListing
    /\ Len(bp_rules) = 2
    /\ Registered(1) /\ ~VisibleFor(1, reg_listing.api_version)
    /\ ~Registered(2)
    /\ "static" \in DOMAIN _endpoints
    /\ reg_listing.endpoints = <<>>

\* C6: the listing has one entry per path with a visible registration, no path
\* twice, and the entry's methods are the union of the methods of the visible
\* registrations of that path, HEAD and OPTIONS left out.
C6_MergeByPath ==
    HasListing =>
        LET v == reg_listing.api_version
            eps == reg_listing.endpoints
            visible(p) == {i \in 1..Len(bp_rules) : RenderPath(bp_rules[i].rule) = p /\ VisibleFor(i, v)}
        IN  /\ \A k, l \in 1..Len(eps) : eps[k].path = eps[l].path => k = l
            /\ \A k \in 1..Len(eps) :
                  /\ visible(eps[k].path) # {}
                  /\ eps[k].methods = UNION {DeclaredMethods(i) : i \in visible(eps[k].path)}
                  /\ eps[k].methods \cap {"HEAD", "OPTIONS"} = {}
            /\ \A path \in RulePaths :
                  visible(RenderPath(path)) # {} => \E k \in 1..Len(eps) : eps[k].path = RenderPath(path)

C6_Witness ==
    /\ HasListing
    /\ Len(bp_rules) = 2
    /\ bp_rules[1].rule = bp_rules[2].rule
    /\ DeclaredMethods(1) = {"GET"} /\ DeclaredMethods(2) = {"POST"}
    /\ bp_rules[1].endpoint # bp_rules[2].endpoint
    /\ Len(reg_listing.endpoints) = 1
    /\ reg_listing.endpoints[1].methods = {"GET", "POST"}

\* two entries of the path metadata cover the same (path, method) pair
DuplicatePair ==
    \E i, j \in 1..Len(reg_metadata) :
        /\ i < j
        /\ reg_metadata[i].path = reg_metadata[j].path
        /\ reg_metadata[i].methods \cap reg_metadata[j].methods # {}

ServedCollections ==
    IF col_response.kind = "collections"
    THEN {col_response.json.collections[i] : i \in 1..Len(col_response.json.collections)}
    ELSE IF col_response.kind = "collection" THEN {col_response.json}
    ELSE {}

\* C10: whatever records the backend holds and whatever version is asked for,
\* no collection document that the listing or the single-collection view
\* returns has a top-level key that begins with the private marker '_'.
C10_PrivateFieldsStripped ==
    \A document \in ServedCollections : \A k \in DOMAIN document : ~startswith_underscore(k)

\* the single-collection view has answered for a record that holds a private
\* field next to fields that are only shown in full
C10_Witness ==
    /\ col_response.kind = "collection"
    /\ "_private" \in DOMAIN get_collection_metadata(col_request.collection_id)
    /\ "summaries" \in DOMAIN col_response.json

(***************************************************************************)
(* Private fields of the capabilities document                             *)
(***************************************************************************)
\* the top-level fields of the capabilities document of request r that begin
\* with the private marker
PrivateCapabilityFields(r) == {k \in DOMAIN response[r].json : startswith_underscore(k)}

\* C11 as stated: for every supported version, the capabilities document that
\* the index route returns has no top-level field that begins with '_'.
C11_NoPrivateCapabilityField ==
    \A r \in Requests :
        response[r].kind = "capabilities" => PrivateCapabilityFields(r) = {}

\* C11 as amended: for every supported version, the capabilities document has
\* exactly one top-level field that begins with '_', the deploy metadata
\* "_backend_deploy_metadata".
C11_OnlyDeployMetadataIsPrivate ==
    \A r \in Requests :
        response[r].kind = "capabilities" =>
            PrivateCapabilityFields(r) = {"_backend_deploy_metadata"}

\* capabilities documents were returned for a version of each generation
C11_Witness ==
    /\ response[1].kind = "capabilities" /\ below(response[1].json.api_version, "1.0.0")
    /\ response[2].kind = "capabilities" /\ at_least(response[2].json.api_version, "1.0.0")

(***************************************************************************)
(* _normalize_collection_metadata                                          *)
(***************************************************************************)
\* the call under consideration: its inputs and what it raised, returned and logged
Called == norm_call.called
In == norm_call.metadata
Out == norm_call.result.metadata
Log == norm_call.result.log
Returned == Called /\ norm_call.result.raised = None
Warnings == {Log[i] : i \in {j \in 1..Len(Log) : Log[j].level = "WARNING"}}

\* C12: for every record without an 'id' field, every version and full flag,
\* normalization returns no document and fails with the KeyError for 'id';
\* what it has logged when it fails is one entry, at error level, about the
\* missing 'id' field.
C12_MissingIdIsFatal ==
    (Called /\ "id" \notin DOMAIN In) =>
        /\ norm_call.result.raised = "KeyError"
        /\ Out = EmptyDict
        /\ Len(Log) = 1
        /\ Log[1].level = "ERROR"
        /\ Log[1].text = "Collection metadata should have 'id' field"

\* a full rendering of a record that has everything but the id
C12_Witness ==
    /\ Called
    /\ "id" \notin DOMAIN In
    /\ {"properties", "extent", "_private"} \subseteq DOMAIN In
    /\ norm_call.full
    /\ norm_call.result.raised = "KeyError"

\* the compound fields and their location of each generation
CompoundFields == {"cube:dimensions", "eo:bands"}
At100(metadata, field) ==
    IF field = "cube:dimensions" THEN deep_get(metadata, field)
    ELSE deep_get2(metadata, "summaries", field)
At040(metadata, field) == deep_get2(metadata, "properties", field)

\* the location the version of the call expects, and the other one
Target(metadata, field) ==
    IF below(norm_call.api_version, "1.0.0") THEN At040(metadata, field) ELSE At100(metadata, field)
Other(metadata, field) ==
    IF below(norm_call.api_version, "1.0.0") THEN At100(metadata, field) ELSE At040(metadata, field)

\* a value that is there and is not an empty container
NonEmpty(x) == x.found /\ x.value # <<>>

FullRendering == Returned /\ norm_call.full
SummaryRendering == Returned /\ ~norm_call.full

\* C13 as stated: in a full rendering a compound field that is held only at the
\* other generation's location is in the output at both locations, and a
\* value at the target location, whatever it is, is kept.
C13_RemapKeepsAnyTarget ==
    FullRendering =>
        \A field \in CompoundFields :
            /\ (Other(In, field).found /\ ~Target(In, field).found) =>
                  /\ Target(Out, field) = Other(In, field)
                  /\ Other(Out, field) = Other(In, field)
            /\ Target(In, field).found => Target(Out, field) = Target(In, field)

\* C13 as amended: in a full rendering a compound field whose value at the
\* other generation's location is not empty, while the target location has no
\* value or an empty one, is in the output at both locations with that value;
\* a value at the target location that is not empty is kept.
C13_RemapKeepsNonEmptyTarget ==
    FullRendering =>
        \A field \in CompoundFields :
            /\ (NonEmpty(Other(In, field)) /\ ~NonEmpty(Target(In, field))) =>
                  /\ Target(Out, field) = Other(In, field)
                  /\ Other(Out, field) = Other(In, field)
            /\ NonEmpty(Target(In, field)) => Target(Out, field) = Target(In, field)

\* a 1.0 rendering that replaced an empty 'cube:dimensions' by the one under
\* 'properties' and kept the bands it had under 'summaries'
C13_Witness ==
    /\ FullRendering
    /\ at_least(norm_call.api_version, "1.0.0")
    /\ At100(In, "cube:dimensions") = [found |-> TRUE, value |-> EmptyDict]
    /\ At100(Out, "cube:dimensions") = [found |-> TRUE, value |-> DimsProps]
    /\ At040(Out, "cube:dimensions") = [found |-> TRUE, value |-> DimsProps]
    /\ At100(In, "eo:bands") = [found |-> TRUE, value |-> BandsSummaries]
    /\ At040(In, "eo:bands") = [found |-> TRUE, value |-> BandsProps]
    /\ At100(Out, "eo:bands") = [found |-> TRUE, value |-> BandsSummaries]

\* the call has put the value of the other location at the target location
Remapped(field) ==
    /\ FullRendering
    /\ NonEmpty(Other(In, field))
    /\ Target(Out, field) = Other(In, field)
    /\ Target(Out, field) # Target(In, field)

\* the warning about a field in the 0.4 layout
StyleWarningOf(field) ==
    [level |-> "WARNING", text |-> "in API 0.4 style instead of 1.0 style",
     collection |-> None, field |-> field]

\* C14 as stated: a normalization that remaps a compound field, in either
\* direction, emits a warning.
C14_RemapAlwaysWarns ==
    \A field \in CompoundFields : Remapped(field) => Warnings # {}

\* C14 as amended: for a version at or above 1.0.0 a compound field is remapped
\* exactly when the warning about that field in the 0.4 layout is emitted; for
\* a version below 1.0.0 no such warning is ever emitted, remap or not.
C14_RemapWarnsOnlyTo100 ==
    Returned =>
        \A field \in CompoundFields :
            IF at_least(norm_call.api_version, "1.0.0")
            THEN Remapped(field) <=> StyleWarningOf(field) \in Warnings
            ELSE StyleWarningOf(field) \notin Warnings

\* a rendering for a version below 1.0.0 that remapped both fields and logged nothing
C14_Witness ==
    /\ Called
    /\ below(norm_call.api_version, "1.0.0")
    /\ Remapped("cube:dimensions")
    /\ Remapped("eo:bands")
    /\ Log = <<>>

\* the fields with a silent default, and the default of each for the call
SilentFields == {"stac_version", "links", "description", "license"}
SilentDefault(field) ==
    CASE field = "stac_version" ->
            IF below(norm_call.api_version, "1.0.0") THEN "0.6.2" ELSE "0.9.0"
      [] field = "links" -> <<>>
      [] field = "description" -> In["id"]
      [] field = "license" -> "proprietary"

\* C15: for every record with an id, each of stac_version, links, description
\* and license keeps its value when the record has one and else gets its
\* default ('0.6.2' below 1.0.0 and '0.9.0' from 1.0.0 on, [], the id,
\* 'proprietary'), and no warning is about one of these four; the summary
\* rendering of a record that holds only an id emits exactly one warning, about
\* the missing extent, and the extent is spatial [0,0,0,0], temporal [null,null].
C15_SilentDefaults ==
    (Called /\ "id" \in DOMAIN In) =>
        /\ Returned
        /\ \A field \in SilentFields :
              /\ field \in DOMAIN Out
              /\ Out[field] = IF field \in DOMAIN In THEN In[field] ELSE SilentDefault(field)
        /\ \A w \in Warnings : w.field \notin SilentFields
        /\ (DOMAIN In = {"id"} /\ ~norm_call.full) =>
              /\ Log = <<[level |-> "WARNING", text |-> "metadata does not have field",
                          collection |-> In["id"], field |-> "extent"]>>
              /\ Out["extent"] = [spatial |-> <<0, 0, 0, 0>>, temporal |-> <<None, None>>]

\* the summary rendering for 0.4.0 of a record that holds only an id
C15_Witness ==
    /\ Called
    /\ DOMAIN In = {"id"}
    /\ ~norm_call.full
    /\ norm_call.api_version = "0.4.0"
    /\ Out["stac_version"] = "0.6.2"
    /\ Out["description"] = In["id"]
    /\ Len(Log) = 1

\* the container fields of each generation
Containers100 == {"cube:dimensions", "summaries"}
Containers040 == {"properties", "other_properties"}
OwnContainers == IF below(norm_call.api_version, "1.0.0") THEN Containers040 ELSE Containers100
OtherContainers == IF below(norm_call.api_version, "1.0.0") THEN Containers100 ELSE Containers040

\* the call has put a remapped compound field into the container
FilledByRemap(container) ==
    CASE container = "cube:dimensions" -> Remapped("cube:dimensions")
      [] container = "summaries" -> Remapped("eo:bands")
      [] container = "properties" -> Remapped("cube:dimensions") \/ Remapped("eo:bands")
      [] container = "other_properties" -> FALSE

MissingFieldWarningOf(field) ==
    [level |-> "WARNING", text |-> "metadata does not have field",
     collection |-> In["id"], field |-> field]

\* C16: in a full rendering a container of the version's generation that the
\* record lacks and no remap has filled is in the output as an empty container,
\* with a warning that names it and the collection id; a container that the
\* record has, or a remap has filled, gets no such warning; the containers of
\* the other generation are neither synthesized nor warned about; a summary
\* rendering synthesizes none of the four and warns about none.
C16_FallbackWithDiagnostic ==
    /\ FullRendering =>
          /\ \A c \in OwnContainers :
                IF c \notin DOMAIN In /\ ~FilledByRemap(c)
                THEN /\ c \in DOMAIN Out
                     /\ Out[c] = EmptyDict
                     /\ MissingFieldWarningOf(c) \in Warnings
                ELSE MissingFieldWarningOf(c) \notin Warnings
          /\ \A c \in OtherContainers :
                /\ c \notin DOMAIN In => c \notin DOMAIN Out
                /\ MissingFieldWarningOf(c) \notin Warnings
    /\ SummaryRendering =>
          \A c \in Containers100 \cup Containers040 :
              /\ c \notin DOMAIN Out
              /\ MissingFieldWarningOf(c) \notin Warnings

\* a full 1.0 rendering that synthesized 'cube:dimensions', found 'summaries'
\* filled by the remap of the bands, and had no 'other_properties' to show
C16_Witness ==
    /\ FullRendering
    /\ at_least(norm_call.api_version, "1.0.0")
    /\ Containers100 \cap DOMAIN In = {}
    /\ Out["cube:dimensions"] = EmptyDict
    /\ MissingFieldWarningOf("cube:dimensions") \in Warnings
    /\ Remapped("eo:bands")
    /\ "other_properties" \notin DOMAIN Out

\* the allow-list of a summary, and the fields every summary has
SummaryAllowList ==
    { "stac_version", "stac_extensions", "id", "title", "description", "keywords", "version",
      "deprecated", "license", "providers", "extent", "links" }
SummaryAlways == {"id", "stac_version", "description", "license", "extent", "links"}

\* C17: for every record and version, the summary rendering has no key outside
\* the allow-list, has id, stac_version, description, license, extent and links,
\* and keeps the allowed fields of the record (such as title) as they are.
C17_SummaryProjection ==
    SummaryRendering =>
        /\ DOMAIN Out \subseteq SummaryAllowList
        /\ SummaryAlways \subseteq DOMAIN Out
        /\ DOMAIN Out \cap {"cube:dimensions", "summaries", "properties", "other_properties"} = {}
        /\ \A k \in DOMAIN In \cap SummaryAllowList : Out[k] = In[k]

\* the summary of a record that has compound fields at every location, a
\* title and fields that are not on the list
C17_Witness ==
    /\ SummaryRendering
    /\ {"cube:dimensions", "summaries", "properties", "other_properties", "name", "title"}
          \subseteq DOMAIN In
    /\ "title" \in DOMAIN Out

\* the second application, when there has been one
Again == norm_call.again
AppliedAgain == Called /\ "again" \in DOMAIN norm_call

\* C18: for every record with an id, every version and full flag, normalizing
\* the output once more returns the same output; and a 1.0.0 rendering of a
\* record that holds cube:dimensions and summaries/eo:bands at the 1.0
\* locations keeps them there, unchanged, both times.
C18_Idempotent ==
    AppliedAgain =>
        /\ Again.raised = None
        /\ Again.metadata = Out
        /\ (norm_call.api_version = "1.0.0" /\ norm_call.full) =>
              \A field \in CompoundFields :
                  NonEmpty(At100(In, field)) =>
                      /\ At100(Out, field) = At100(In, field)
                      /\ At100(Again.metadata, field) = At100(In, field)

\* a full rendering that remapped a field and warned more than once, normalized
\* once more: the same output, and nothing left to warn about
C18_Witness ==
    /\ AppliedAgain
    /\ norm_call.full
    /\ Remapped("cube:dimensions")
    /\ Len(Log) > 1
    /\ Again.metadata = Out
    /\ Again.log = <<>>

(***************************************************************************)
(* Batch jobs and services on the wire                                     *)
(***************************************************************************)
\* the version that the request of the response was resolved to
EntVersion == ApiVersionsGet(PopVersion(ent_request.version)).version

\* the jobs of the user of the request, in the order of the registry
UserJobs == SelectSeq(_job_registry, LAMBDA e : e.key[1] = ent_request.user)

\* the job of the detail request
AskedJob ==
    (CHOOSE e \in {_job_registry[i] : i \in 1..Len(_job_registry)} :
        e.key = <<ent_request.user, ent_request.id>>).value

\* the service of the detail request
AskedService ==
    CHOOSE m \in {_registry[i] : i \in 1..Len(_registry)} : m["id"] = ent_request.id

\* the rendered jobs and services of the response, each with the record it was
\* rendered from and with the kind of rendering
Rendered ==
    CASE ent_response.kind = "jobs" ->
            {[family |-> "job", full |-> FALSE, canonical |-> UserJobs[i].value,
              wire |-> ent_response.json.jobs[i]] : i \in 1..Len(ent_response.json.jobs)}
      [] ent_response.kind = "job" ->
            {[family |-> "job", full |-> TRUE, canonical |-> AskedJob, wire |-> ent_response.json]}
      [] ent_response.kind = "services" ->
            {[family |-> "service", full |-> FALSE, canonical |-> _registry[i],
              wire |-> ent_response.json.services[i]] : i \in 1..Len(ent_response.json.services)}
      [] ent_response.kind = "service" ->
            {[family |-> "service", full |-> TRUE, canonical |-> AskedService,
              wire |-> ent_response.json]}
      [] OTHER -> {}

\* a listing has one entry for each record
ListingComplete ==
    /\ ent_response.kind = "jobs" => Len(ent_response.json.jobs) = Len(UserJobs)
    /\ ent_response.kind = "services" => Len(ent_response.json.services) = Len(_registry)

\* C19: for every job, in the listing and in the detail view, the status
\* 'created' is rendered as 'submitted' for a version below 1.0.0 and as
\* 'created' for a version from 1.0.0 on; every other status is rendered as it is.
C19_JobStatusVocabulary ==
    /\ ListingComplete
    /\ \A r \in Rendered :
          r.family = "job" =>
              r.wire.vals["status"] =
                  IF r.canonical["status"] = "created"
                  THEN (IF below(EntVersion, "1.0.0") THEN "submitted" ELSE "created")
                  ELSE r.canonical["status"]

\* a listing for a version below 1.0.0 of a created and a running job
C19_Witness ==
    /\ ent_response.kind = "jobs"
    /\ below(EntVersion, "1.0.0")
    /\ Len(UserJobs) = 2
    /\ UserJobs[1].value["status"] = "created"
    /\ UserJobs[2].value["status"] = "running"
    /\ ent_response.json.jobs[1].vals["status"] = "submitted"
    /\ ent_response.json.jobs[2].vals["status"] = "running"

\* the keys of each generation
Keys100 == {"process", "created", "configuration"}
Keys040 == {"process_graph", "submitted", "parameters"}

\* the wire object has the key with the value, or lacks the key
Holds(wire, key, value) == key \in DOMAIN wire.vals /\ wire.vals[key] = value
Lacks(wire, key) == key \notin PyKeys(wire)

\* the wire object has under key what the record has under field, rendered by
\* render, or lacks the key when the record has no value there
Carries(r, key, field, render(_)) ==
    IF field \in DOMAIN r.canonical
    THEN Holds(r.wire, key, render(r.canonical[field]))
    ELSE Lacks(r.wire, key)

AsIs(v) == v
AsDateTime(v) ==
    CASE v = <<2017, 1, 1, 9, 32, 12>> -> "2017-01-01T09:32:12Z"
      [] v = <<2017, 1, 2, 0, 0, 0>> -> "2017-01-02T00:00:00Z"
      [] v = <<2020, 4, 9, 15, 5, 8>> -> "2020-04-09T15:05:08Z"

\* the record has a configuration that is not empty
Configured(r) == "configuration" \in DOMAIN r.canonical /\ r.canonical["configuration"] # <<>>

\* C20: for a version below 1.0.0 a rendered job or service has none of the keys
\* 'process', 'created', 'configuration': process_graph holds the process
\* graph of the canonical process in a full rendering (in a listing there is
\* none), submitted holds the creation time, and parameters of a service holds
\* the configuration, or, when there is none or an empty one, an empty object
\* in a full rendering and nothing in a listing. For a version from 1.0.0 on
\* it has none of the keys 'process_graph', 'submitted', 'parameters' and
\* keeps process (in a full rendering), created and configuration.
C20_FieldRenaming ==
    \A r \in Rendered :
        IF below(EntVersion, "1.0.0")
        THEN /\ \A k \in Keys100 : Lacks(r.wire, k)
             /\ IF r.full
                THEN Holds(r.wire, "process_graph", r.canonical["process"]["process_graph"])
                ELSE Lacks(r.wire, "process_graph")
             /\ Carries(r, "submitted", "created", AsDateTime)
             /\ IF r.family = "job" THEN Lacks(r.wire, "parameters")
                ELSE IF Configured(r) THEN Carries(r, "parameters", "configuration", AsIs)
                ELSE IF r.full THEN Holds(r.wire, "parameters", <<>>)
                ELSE Lacks(r.wire, "parameters")
        ELSE /\ \A k \in Keys040 : Lacks(r.wire, k)
             /\ IF r.full THEN Carries(r, "process", "process", AsIs)
                ELSE Lacks(r.wire, "process")
             /\ Carries(r, "created", "created", AsDateTime)
             /\ IF r.family = "job" THEN Lacks(r.wire, "configuration")
                ELSE Carries(r, "configuration", "configuration", AsIs)

\* the detail view, for a version below 1.0.0, of a service that has a creation
\* time and no configuration
C20_Witness ==
    /\ ent_response.kind = "service"
    /\ below(EntVersion, "1.0.0")
    /\ "created" \in DOMAIN AskedService
    /\ "configuration" \notin DOMAIN AskedService
    /\ Holds(ent_response.json, "parameters", <<>>)
    /\ Holds(ent_response.json, "submitted", "2020-04-09T15:05:08Z")
    /\ "process_graph" \in DOMAIN ent_response.json.vals

\* the fields of a job or service that may have no value
OptionalFields ==
    { "created", "updated", "title", "description", "progress", "job_options",
      "configuration", "plan", "costs", "budget" }

\* C21: a rendered job or service, in any version and in the listing as in the
\* detail view, has no key whose value is null; an optional field that the
\* record has no value for is left out (its renamed key as well; only
\* 'parameters' of a full rendering below 1.0.0 is an empty object instead),
\* and a creation or update time that the record has is rendered as a UTC
\* date-time string.
C21_NoNullInPlace ==
    \A r \in Rendered :
        /\ r.wire.nulls = {}
        /\ \A f \in OptionalFields \ DOMAIN r.canonical :
              /\ f \notin DOMAIN r.wire.vals
              /\ f = "created" => "submitted" \notin DOMAIN r.wire.vals
              /\ (f = "configuration" /\ ~(r.full /\ below(EntVersion, "1.0.0"))) =>
                    "parameters" \notin DOMAIN r.wire.vals
        /\ "created" \in DOMAIN r.canonical =>
              Holds(r.wire, IF below(EntVersion, "1.0.0") THEN "submitted" ELSE "created",
                    AsDateTime(r.canonical["created"]))
        /\ (r.family = "job" /\ "updated" \in DOMAIN r.canonical) =>
              Holds(r.wire, "updated", AsDateTime(r.canonical["updated"]))

\* the detail view of a job that has no creation time, no title and no progress
C21_Witness ==
    /\ ent_response.kind = "job"
    /\ DOMAIN AskedJob \cap {"created", "title", "progress"} = {}
    /\ DOMAIN ent_response.json.vals \cap {"created", "submitted", "title", "progress"} = {}
    /\ "status" \in DOMAIN ent_response.json.vals

\* what the backend lookup of the answered request came to
LookupOf(req) ==
    IF req.view = "get_job_info" THEN batch_jobs_get_job_info(req.id, req.user)
    ELSE secondary_services_service_info(req.id)

\* the failures by which a backend says that it has no such entity; the dummy
\* services say it with the StopIteration of next()
NotFoundFailures ==
    {"JobNotFoundException", "ServiceNotFoundException", "CollectionNotFoundException",
     "StopIteration"}
NotFoundCodes == {"JobNotFound", "ServiceNotFound", "CollectionNotFound"}

LookupAnswered ==
    /\ ent_request.view \in {"get_job_info", "get_service_info"}
    /\ ~PullVersion(ent_request.version).raised

\* C22: a lookup of a job or of a service that fails in the backend fails in
\* the response the same way: a not-found failure of the backend gives the
\* not-found error of that entity, and any other failure of the backend never
\* gives a not-found error.
C22_FailuresPropagateUnchanged ==
    /\ (LookupAnswered /\ LookupOf(ent_request).raised # None) =>
          LET raised == LookupOf(ent_request).raised
          IN  /\ ent_response.kind = "error"
              /\ raised \in NotFoundFailures =>
                    /\ ent_response.status_code = 404
                    /\ ent_response.code \in NotFoundCodes
              /\ raised \notin NotFoundFailures =>
                    /\ ent_response.code \notin NotFoundCodes
                    /\ ent_response = InternalError(raised)
    /\ ( /\ col_request.view = "collection_by_id"
         /\ ~PullVersion(col_request.version).raised
         /\ ~CatalogHas(col_request.collection_id) ) =>
          col_response = CollectionNotFound(col_request.collection_id)

\* the listing request that went past the version check, and its version
ListingAnswered ==
    /\ col_request.view = "collections"
    /\ ~PullVersion(col_request.version).raised
ListedVersion == PullVersion(col_request.version).g.api_version
Malformed == {i \in 1..Len(catalog) : "id" \notin DOMAIN catalog[i]}

\* the error entry about record i in the log, written before the error
\* handler wrote its own
ShownInLog(i) ==
    \E k \in 1..(Len(col_log) - 1) :
        /\ col_log[k].level = "ERROR"
        /\ col_log[k].text = "Collection metadata should have 'id' field"
        /\ col_log[k].metadata = StripPrivate(catalog[i])

\* C23: the listing of the collections either has one entry for every record
\* of the catalog, in the order of the catalog, each the summary normalization
\* of its record, or the request fails with the KeyError of a record without
\* id, after an error entry in the log that shows that record; no record is
\* left out of a listing that is returned.
C23_NoSilentDrop ==
    ListingAnswered =>
        \/ /\ col_response.status_code = 200
           /\ Malformed = {}
           /\ Len(col_response.json.collections) = Len(catalog)
           /\ \A i \in 1..Len(catalog) :
                 /\ col_response.json.collections[i] =
                       _normalize_collection_metadata(catalog[i], ListedVersion, FALSE).metadata
                 /\ col_response.json.collections[i]["id"] = catalog[i]["id"]
        \/ /\ col_response = InternalError("KeyError")
           /\ Malformed # {}
           /\ \E i \in Malformed : (\A j \in Malformed : i <= j) /\ ShownInLog(i)

\* a listing of two records fails on its second record, which has no id
C23_Witness ==
    /\ ListingAnswered
    /\ Len(catalog) = 2
    /\ Malformed = {2}
    /\ col_response = InternalError("KeyError")
    /\ ShownInLog(2)

\* both renderings made, of a ProcessSpec with a declared return
BothRendered ==
    /\ spec_dicts.d040 # NoCall /\ spec_dicts.d100 # NoCall
    /\ spec._returns # PyNone
D040 == spec_dicts.d040.value
D100 == spec_dicts.d100.value
RasterCubeSchema == [type |-> "object", format |-> "raster-cube"]

\* C24: the two renderings of a ProcessSpec with a declared return agree:
\* parameter_order of the pre-1.0 rendering is the sequence of the names of
\* the parameter array of the 1.0 rendering, which is the order of
\* declaration; for each parameter required is the negation of optional, and
\* schema and description are the same in both; a parameter declared with the
\* raster-cube marker has the schema {type: object, format: raster-cube} in
\* both; id, description and returns are the same in both.
C24_DualRenderingAgrees ==
    BothRendered =>
        /\ spec_dicts.d040.raised = None /\ spec_dicts.d100.raised = None
        /\ D040.parameter_order = [i \in 1..Len(D100.parameters) |-> D100.parameters[i].name]
        /\ D040.parameter_order = [i \in 1..Len(spec._parameters) |-> spec._parameters[i].name]
        /\ DOMAIN D040.parameters = {D100.parameters[i].name : i \in 1..Len(D100.parameters)}
        /\ \A i \in 1..Len(D100.parameters) :
              LET p100 == D100.parameters[i]
                  p040 == D040.parameters[p100.name]
              IN  /\ p040.required = ~p100.optional
                  /\ p040.required = spec._parameters[i].required
                  /\ p040.schema = p100.schema
                  /\ p040.description = p100.description
                  /\ spec._parameters[i].schema = RASTERCUBE =>
                        p040.schema = RasterCubeSchema /\ p100.schema = RasterCubeSchema
        /\ D040.id = D100.id
        /\ D040.description = D100.description
        /\ D040.returns = D100.returns

\* both renderings of a spec with a required parameter and then an optional
\* raster cube
C24_Witness ==
    /\ BothRendered
    /\ Len(spec._parameters) = 2
    /\ spec._parameters[1].required /\ spec._parameters[1].schema # RASTERCUBE
    /\ ~spec._parameters[2].required /\ spec._parameters[2].schema = RASTERCUBE

\* how a name got into the registry: the function registered by add_deprecated
\* is the deprecation wrapper
RegisteredDeprecated(name) ==
    /\ name \in DOMAIN _processes
    /\ _processes[name].function # PyNone
    /\ _processes[name].function.value.deprecated
RegisteredWithSpec(name) == name \in DOMAIN _processes /\ ~RegisteredDeprecated(name)

\* C25: in every registry, get_spec(name) fails with ProcessUnsupported for a
\* name that was never registered and for a name registered as deprecated,
\* and returns the spec of that id for any other registered name; the function
\* registered as deprecated can still be called through the registry, and the
\* call warns of the deprecation and gives what the function gives.
C25_SpecLookup ==
    /\ [][\A name \in RequestedProcessNames :
            /\ get_spec(name) =>
                  /\ (name \notin DOMAIN _processes \/ RegisteredDeprecated(name)) =>
                        proc_call' = ProcessUnsupported(name)
                  /\ RegisteredWithSpec(name) =>
                        /\ proc_call'.raised = None
                        /\ proc_call'.value.id = name
            /\ (call_function(name) /\ RegisteredDeprecated(name)) =>
                  /\ proc_call'.raised = None
                  /\ proc_call'.value = Function(name).returns
                  /\ proc_call'.warned
            /\ (call_function(name) /\ ~RegisteredDeprecated(name)) => ~proc_call'.warned]_vars
    /\ [](\A name \in DOMAIN _processes : RegisteredDeprecated(name) => ENABLED call_function(name))

\* the spec of a name that is registered as deprecated, next to names with a
\* spec, was asked for
C25_Witness ==
    /\ proc_call.called /\ proc_call.op = "get_spec"
    /\ RegisteredDeprecated(proc_call.name)
    /\ \E name \in DOMAIN _processes : RegisteredWithSpec(name)

\* the graph of a body at the place where a version keeps it, if it has one
GraphAt(post_data, api_version) ==
    IF at_least(api_version, "1.0.0")
    THEN IF "process" \in DOMAIN post_data
         THEN IF post_data["process"] # PyNone /\ "process_graph" \in DOMAIN post_data["process"]
              THEN Py(post_data["process"]["process_graph"]) ELSE PyNone
         ELSE PyNone
    ELSE IF "process_graph" \in DOMAIN post_data THEN Py(post_data["process_graph"]) ELSE PyNone

\* C26: a POST /jobs of an accepted version whose body has the graph at
\* process.process_graph (versions from 1.0.0 on) or at process_graph (versions
\* below 1.0.0) stores one more job, with process = {process_graph: graph},
\* and is answered with 201, the id of the job in OpenEO-Identifier and a
\* Location with the version token of the request; a body without the graph at
\* that place is answered with ProcessGraphMissing and no job is stored.
C26_GraphExtraction ==
    [][\A token \in Tokens \cup {NoVersionSegment}, user \in Users,
          post_data \in PostBodies, job_id \in JobIds :
            (create_job(token, user, post_data, job_id) /\ ~PullVersion(token).raised) =>
                LET graph == GraphAt(post_data, PullVersion(token).g.api_version)
                IN  IF graph = PyNone
                    THEN /\ ent_response' = ProcessGraphMissing
                         /\ _job_registry' = _job_registry
                    ELSE /\ Len(_job_registry') = Len(_job_registry) + 1
                         /\ SubSeq(_job_registry', 1, Len(_job_registry)) = _job_registry
                         /\ _job_registry'[Len(_job_registry')].key = <<user, job_id>>
                         /\ _job_registry'[Len(_job_registry')].value.process =
                               [process_graph |-> graph.value]
                         /\ ent_response'.status_code = 201
                         /\ ent_response'.headers.OpenEOIdentifier = job_id
                         /\ token # NoVersionSegment =>
                               ent_response'.headers.Location = <<"openeo", token, "jobs", job_id>>]_vars

\* the context that the version segment of request r resolves to
OwnContext(r) == PullVersion(request[r].version).g
Answered(r) == pc[r] = "done" /\ response[r].kind = "capabilities"

\* C27: whatever the interleaving of the requests, the context of a request
\* that went past the version check holds the alias and the canonical version
\* of its own path, and the capabilities it is answered with are those of that
\* canonical version, also when another request has published another version
\* in between.
C27_ContextIsRequestLocal ==
    \A r \in Requests :
        /\ (pc[r] = "view" \/ Answered(r)) => g[r] = OwnContext(r)
        /\ Answered(r) =>
              /\ response[r].json.api_version = OwnContext(r).api_version
              /\ response[r].json = Capabilities(OwnContext(r).api_version)

\* a request for 0.4 is answered after a request for 1.0.0 went past the
\* version check and before that one is answered
C27_Witness ==
    \E r, q \in Requests :
        /\ Answered(r) /\ request[r].version = "0.4"
        /\ response[r].json.api_version = "0.4.2"
        /\ pc[q] = "view" /\ g[q].api_version = "1.0.0"

StatusOf(registry, job_id, user_id) ==
    registry[CHOOSE i \in 1..Len(registry) : registry[i].key = <<user_id, job_id>>].value.status

\* C28: in every registry that create_job, start_job, cancel_job and status
\* updates lead to, get_results(job, user) returns the result files if and
\* only if (user, job) is in the registry with status 'finished'; it fails with
\* JobNotFound when the pair is not in the registry and with JobNotFinished
\* for any other status. A created job has status 'created', start_job sets
\* 'running' and changes no other job, cancel_job changes nothing, and a call
\* that fails leaves the registry as it was.
C28_ResultsGatedOnStatus ==
    [][\A user_id \in Users, job_id \in RequestedJobIds :
          /\ get_results(job_id, user_id) =>
                /\ _job_registry' = _job_registry
                /\ (job_call'.raised = None) <=>
                      (HasJob(job_id, user_id) /\ StatusOf(_job_registry, job_id, user_id) = "finished")
                /\ job_call'.raised = None => job_call'.value = ResultFiles(job_id)
                /\ ~HasJob(job_id, user_id) => job_call'.raised = "JobNotFoundException"
                /\ (HasJob(job_id, user_id) /\ StatusOf(_job_registry, job_id, user_id) # "finished") =>
                      job_call'.raised = "JobNotFinishedException"
          /\ (start_job(job_id, user_id) /\ HasJob(job_id, user_id)) =>
                /\ StatusOf(_job_registry', job_id, user_id) = "running"
                /\ Len(_job_registry') = Len(_job_registry)
                /\ \A i \in 1..Len(_job_registry) :
                      /\ _job_registry'[i].key = _job_registry[i].key
                      /\ _job_registry[i].key # <<user_id, job_id>> =>
                            _job_registry'[i] = _job_registry[i]
          /\ (start_job(job_id, user_id) /\ ~HasJob(job_id, user_id)) =>
                job_call'.raised = "JobNotFoundException"
          /\ cancel_job(job_id, user_id) => _job_registry' = _job_registry
          /\ DummyBatchJobs_create_job(user_id, job_id) =>
                StatusOf(_job_registry', job_id, user_id) = "created"
          /\ job_call'.raised # None => _job_registry' = _job_registry]_vars

\* the results of a job of two were given after it was created, started and
\* set to finished, and the other job was started
C28_Witness ==
    /\ job_call.called /\ job_call.method = "get_results" /\ job_call.raised = None
    /\ Len(_job_registry) = 2
    /\ StatusOf(_job_registry, job_call.job_id, job_call.user_id) = "finished"
    /\ \E i \in 1..2 : _job_registry[i].value.status = "running"

BackendState == <<_job_registry, _registry, catalog>>

\* C29: a request on a route of the blueprint whose version is not a supported
\* one ends with the UnsupportedApiVersion error of that version, and the job
\* registry, the services and the catalog of the backend are after the request
\* what they were before it: neither the view nor the backend has run.
C29_RejectedBeforeHandler ==
    [][(/\ ent_request'.view \in {"create_job", "queue_job"}
        /\ ~IsSupported(PopVersion(ent_request'.version))) =>
            /\ ent_response' = UnsupportedApiVersion(PopVersion(ent_request'.version))
            /\ ent_response'.status_code = 501
            /\ BackendState' = BackendState]_vars

\* a request to start a job that is in the registry as created was rejected
\* for its version
C29_Witness ==
    /\ ent_request.view = "queue_job"
    /\ ~IsSupported(PopVersion(ent_request.version))
    /\ ent_response.kind = "error" /\ ent_response.code = "UnsupportedApiVersion"
    /\ HasJob(ent_request.id, ent_request.user)
    /\ StatusOf(_job_registry, ent_request.id, ent_request.user) = "created"

\* the response that a request gets from a catalog of these records
IndexIn(records, collection_id) ==
    {i \in 1..Len(records) : "id" \in DOMAIN records[i] /\ records[i]["id"] = collection_id}
ResponseTo(records, req) ==
    LET pulled == PullVersion(req.version)
        listed == NormalizeAll(records, pulled.g.api_version, Len(records))
        one == _normalize_collection_metadata(
                   records[CHOOSE i \in IndexIn(records, req.collection_id) : TRUE],
                   pulled.g.api_version, TRUE)
    IN  IF pulled.raised THEN pulled.error
        ELSE IF req.view = "collections"
        THEN IF listed.raised # None THEN InternalError(listed.raised)
             ELSE [kind |-> "collections", status_code |-> 200,
                   json |-> [collections |-> listed.metadata, links |-> <<>>]]
        ELSE IF IndexIn(records, req.collection_id) = {}
        THEN CollectionNotFound(req.collection_id)
        ELSE IF one.raised # None THEN InternalError(one.raised)
        ELSE [kind |-> "collection", status_code |-> 200, json |-> one.metadata]

\* C30: no collection request, of any version, changes a record of the
\* catalog, whether its normalization remaps a field, fills in a fallback or
\* fails; and the response to a request is the response that the same request
\* gets from the catalog as the request leaves it, so that in a sequence of
\* requests no response depends on the requests before it.
C30_InputUnchanged ==
    [][/\ catalog' = catalog
       /\ col_request' # NoColRequest => col_response' = ResponseTo(catalog', col_request')]_vars

\* a full rendering below 1.0.0 has the dimensions of the record under
\* properties, next to the bands that the record has there, and the record in
\* the catalog has them at the top only
C30_Witness ==
    /\ col_request.view = "collection_by_id"
    /\ col_response.status_code = 200
    /\ "properties" \in DOMAIN col_response.json
    /\ "cube:dimensions" \in DOMAIN col_response.json["properties"]
    /\ "eo:bands" \in DOMAIN col_response.json["properties"]
    /\ LET record == get_collection_metadata(col_request.collection_id)
       IN  /\ "properties" \in DOMAIN record
           /\ "cube:dimensions" \notin DOMAIN record["properties"]

====
